---- MODULE Spec2Model ----
(***************************************************************************)
(* A model of the core of the Leo compiler:                                *)
(*   - the expression lowering of the Code Generator                       *)
(*     (compiler/passes/src/code_generation/visit_expressions.rs),         *)
(*   - the Dead Code Eliminator                                            *)
(*     (compiler/passes/src/dead_code_elimination),                        *)
(*   - the diagnostic Handler and its emitters                             *)
(*     (errors/src/emitter/mod.rs),                                        *)
(*   - the record commitment verifier                                      *)
(*     (state/src/record_commitment/record_commitment.rs).                 *)
(* Text (a Rust String) is modelled as a sequence of lexemes, each a TLA+  *)
(* string; the Rust string is the concatenation of the lexemes, so that    *)
(* push_str / format! / join are sequence concatenations.                  *)
(***************************************************************************)
EXTENDS Integers, Sequences, FiniteSets, TLC

VARIABLES
    \* ---- Code Generator ----
    next_register,     \* CodeGenerator::next_register
    variable_mapping,  \* CodeGenerator::variable_mapping (name -> storage text)
    first_register,    \* the value of next_register when the function body starts
    issued,            \* destination registers of the instructions pushed so far
    cg_visits,         \* how many expressions of the body have been lowered
    cg_phase,          \* "idle" | "visited" | "panicked"
    cg_input,          \* the expression last handed to visit_expression
    cg_start,          \* next_register on entry to that visit
    cg_result          \* what that visit returned (or how it failed)

cgVars == <<next_register, variable_mapping, first_register, issued, cg_visits,
            cg_phase, cg_input, cg_start, cg_result>>

VARIABLES
    \* ---- Dead Code Eliminator ----
    used_variables,    \* DeadCodeEliminator::used_variables
    is_necessary,      \* DeadCodeEliminator::is_necessary
    dce_phase,         \* "off" | "sweep" | "done" | "panicked"
    dce_script,        \* the statements of the block the sweep has yet to reach,
                       \* when the block is a fixed one; Free otherwise
    dce_block,         \* the statements of the block the sweep has reached
    statements,        \* reconstruct_block's `statements` vector
    dce_result,        \* the block reconstruct_block returns
    dce_previous       \* the block the previous run of the pass returned, when
                       \* the pass is running on its own output; NoRun otherwise

dceVars == <<used_variables, is_necessary, dce_phase, dce_script, dce_block,
             statements, dce_result, dce_previous>>

VARIABLES
    \* ---- Diagnostic Handler ----
    count,             \* HandlerInner::count
    emitter,           \* HandlerInner::emitter: which Emitter the handler owns
    buffer,            \* the ErrBuffer a BufferEmitter and its clones share
    stderr,            \* what StderrEmitter has printed to the standard error
    h_phase,           \* "off" | "running" | "returned" | "exited" | "panicked"
    h_scope,           \* "new" | "new_with_buf" | "with": how the handler was made
    h_call,            \* the operation last called on the handler, and its error
    emitted,           \* the errors handed to emit_err / fatal_err, in call order
    pushed,            \* the errors the client handed to an emitter itself, not
                       \* through the handler, each with the emitter it went to
    h_seen,            \* what err_count, had_errors and extract last returned
    with_result,       \* what Handler::with returned
    exit_status        \* the status std::process::exit was called with

handlerVars == <<count, emitter, buffer, stderr, h_phase, h_scope, h_call, emitted,
                 pushed, h_seen, with_result, exit_status>>

VARIABLES
    \* ---- Record commitment verifier ----
    typed_record,      \* the TypedRecord handed to verify_record_commitment
    rc_failing,        \* the step of the call that fails, "none" when none does
    rc_phase,          \* "off" | "called" | "returned"
    rc_result          \* what verify_record_commitment returned

recordVars == <<typed_record, rc_failing, rc_phase, rc_result>>

vars == <<cgVars, dceVars, handlerVars, recordVars>>

(***************************************************************************)
(* Bounds of the model.                                                    *)
(***************************************************************************)
MaxInputs == 2     \* function inputs bound to registers before the body
MaxVisits == 2     \* expressions lowered per function body
MaxArgs == 2       \* arguments / members / elements of the generated expressions
MaxStmts == 3      \* statements of the generated blocks
MaxEmits == 4      \* errors handed to a handler and to its BufferEmitter

(***************************************************************************)
(* Text helpers.                                                           *)
(***************************************************************************)
\* The empty String.
Empty == <<>>

\* format!("r{}", n)
Reg(n) == "r" \o ToString(n)

\* Vec<String>::join(sep)
RECURSIVE Join(_, _)
Join(strs, sep) ==
    IF Len(strs) = 0 THEN Empty
    ELSE IF Len(strs) = 1 THEN strs[1]
    ELSE strs[1] \o sep \o Join(Tail(strs), sep)

\* The concatenation of a sequence of Strings.
RECURSIVE Concat(_)
Concat(strs) == IF Len(strs) = 0 THEN Empty ELSE strs[1] \o Concat(Tail(strs))

(***************************************************************************)
(* The AST (leo_ast), as far as the passes read it.                        *)
(***************************************************************************)
None == <<>>
Some(x) == <<x>>

Identifier(name) == [kind |-> "Identifier", name |-> name]
Literal(text) == [kind |-> "Literal", text |-> text]
Binary(op, left, right) == [kind |-> "Binary", op |-> op, left |-> left, right |-> right]
Unary(op, receiver) == [kind |-> "Unary", op |-> op, receiver |-> receiver]
Ternary(c, t, f) == [kind |-> "Ternary", condition |-> c, if_true |-> t, if_false |-> f]
\* members: a sequence of StructVariableInitializer
StructInit(name, members) == [kind |-> "Struct", name |-> name, members |-> members]
StructVariableInitializer(identifier, expression) ==
    [identifier |-> identifier, expression |-> expression]
MemberAccess(inner, name) ==
    [kind |-> "Access", access |-> "Member", inner |-> inner, name |-> name]
AssociatedFunction(ty, name, args) ==
    [kind |-> "Access", access |-> "AssociatedFunction", ty |-> ty, name |-> name, args |-> args]
AssociatedConstant == [kind |-> "Access", access |-> "AssociatedConstant"]
TupleAccess == [kind |-> "Access", access |-> "Tuple"]
Call(function, external, arguments) ==
    [kind |-> "Call", function |-> function, external |-> external, arguments |-> arguments]
Tuple(elements) == [kind |-> "Tuple", elements |-> elements]
UnitExpression == [kind |-> "Unit"]
ErrExpression == [kind |-> "Err"]

\* leo_ast::Type, as far as the Code Generator distinguishes its variants.
TypeUnit == [t |-> "Unit"]
TypeTuple(elements) == [t |-> "Tuple", elements |-> elements]
TypeIdentifier(name) == [t |-> "Identifier", name |-> name]
TypeInteger == [t |-> "Integer"]

(***************************************************************************)
(* The read-only tables the Code Generator consults.                       *)
(***************************************************************************)
\* symbol_table.functions: function name -> declared output type
functions ==
    [f \in {"f_unit", "f_one", "f_pair", "f_triple", "f_single"} |->
        CASE f = "f_unit"   -> TypeUnit
          [] f = "f_one"    -> TypeInteger
          [] f = "f_pair"   -> TypeTuple(<<TypeInteger, TypeInteger>>)
          [] f = "f_triple" -> TypeTuple(<<TypeInteger, TypeInteger, TypeInteger>>)
          [] f = "f_single" -> TypeTuple(<<TypeInteger>>)]

\* composite_mapping: composite name -> (is_record, visibility)
composite_mapping ==
    [c \in {"Point", "Token"} |->
        CASE c = "Point" -> <<FALSE, "">>
          [] c = "Token" -> <<TRUE, "private">>]

\* The name bound to the i-th function input.
InputName(i) == "in" \o ToString(i)

\* The name mapping of a function with n inputs: input i lives in register
\* r(i-1); "v" is bound to a raw name.
MappingFor(n) ==
    [name \in {"v"} \cup {InputName(i) : i \in 1..n} |->
        IF name = "v" THEN <<"v">>
        ELSE <<Reg((CHOOSE i \in 1..n : InputName(i) = name) - 1)>>]

(***************************************************************************)
(* Results of a visit.  fail = "" when the visit returns; otherwise the    *)
(* kind of panic that aborted it, and `next` is the counter at the panic.  *)
(***************************************************************************)
Ok(ref, ins, next) == [fail |-> "", ref |-> ref, ins |-> ins, next |-> next]
Panic(why, next) == [fail |-> why, ref |-> Empty, ins |-> Empty, next |-> next]

BinaryOps ==
    {"Add", "AddWrapped", "And", "BitwiseAnd", "Div", "DivWrapped", "Eq", "Gte", "Gt",
     "Lte", "Lt", "Mod", "Mul", "MulWrapped", "Nand", "Neq", "Nor", "Or", "BitwiseOr",
     "Pow", "PowWrapped", "Rem", "RemWrapped", "Shl", "ShlWrapped", "Shr", "ShrWrapped",
     "Sub", "SubWrapped", "Xor"}

BinaryOpcode(op) ==
    CASE op = "Add" -> "add"           [] op = "AddWrapped" -> "add.w"
      [] op = "And" -> "and"           [] op = "BitwiseAnd" -> "and"
      [] op = "Div" -> "div"           [] op = "DivWrapped" -> "div.w"
      [] op = "Eq" -> "is.eq"          [] op = "Gte" -> "gte"
      [] op = "Gt" -> "gt"             [] op = "Lte" -> "lte"
      [] op = "Lt" -> "lt"             [] op = "Mod" -> "mod"
      [] op = "Mul" -> "mul"           [] op = "MulWrapped" -> "mul.w"
      [] op = "Nand" -> "nand"         [] op = "Neq" -> "is.neq"
      [] op = "Nor" -> "nor"           [] op = "Or" -> "or"
      [] op = "BitwiseOr" -> "or"      [] op = "Pow" -> "pow"
      [] op = "PowWrapped" -> "pow.w"  [] op = "Rem" -> "rem"
      [] op = "RemWrapped" -> "rem.w"  [] op = "Shl" -> "shl"
      [] op = "ShlWrapped" -> "shl.w"  [] op = "Shr" -> "shr"
      [] op = "ShrWrapped" -> "shr.w"  [] op = "Sub" -> "sub"
      [] op = "SubWrapped" -> "sub.w"  [] op = "Xor" -> "xor"

UnaryOps == {"Abs", "AbsWrapped", "Double", "Inverse", "Not", "Negate", "Square", "SquareRoot"}

UnaryOpcode(op) ==
    CASE op = "Abs" -> "abs"        [] op = "AbsWrapped" -> "abs.w"
      [] op = "Double" -> "double"  [] op = "Inverse" -> "inv"
      [] op = "Not" -> "not"        [] op = "Negate" -> "neg"
      [] op = "Square" -> "square"  [] op = "SquareRoot" -> "sqrt"

\* The closed set of intrinsic receiver types and their opcodes.
CoreSymbols ==
    {"BHP256", "BHP512", "BHP768", "BHP1024", "Pedersen64", "Pedersen128",
     "Poseidon2", "Poseidon4", "Poseidon8"}

CoreOpcode(name) ==
    CASE name = "BHP256" -> "bhp256"     [] name = "BHP512" -> "bhp512"
      [] name = "BHP768" -> "bhp768"     [] name = "BHP1024" -> "bhp1024"
      [] name = "Pedersen64" -> "ped64"  [] name = "Pedersen128" -> "ped128"
      [] name = "Poseidon2" -> "psd2"    [] name = "Poseidon4" -> "psd4"
      [] name = "Poseidon8" -> "psd8"

(***************************************************************************)
(* CodeGenerator: the visit_* methods.  A visit takes the expression, the  *)
(* name mapping and the register counter, and returns the value reference, *)
(* the prelude and the counter after the visit.                            *)
(***************************************************************************)
\* visit_identifier falling back on the raw name when the name is unmapped.
visit_identifier_raw(input, mapping, n) ==
    IF input.name \in DOMAIN mapping
    THEN Ok(mapping[input.name], Empty, n)
    ELSE Ok(<<input.name>>, Empty, n)

visit_identifier(input, mapping, n) ==
    IF input.name \in DOMAIN mapping
    THEN Ok(mapping[input.name], Empty, n)
    ELSE Panic("unwrap", n)

visit_value(input, n) == Ok(<<input.text>>, Empty, n)

\* visit_binary with the operands' preludes concatenated in the wrong order.
visit_binary_swapped(input, left, right) ==
    LET opcode == BinaryOpcode(input.op)
        destination_register == <<Reg(right.next)>>
        binary_instruction ==
            <<"    ", opcode, " ">> \o left.ref \o <<" ">> \o right.ref
                \o <<" ", "into", " ">> \o destination_register \o <<";", "\n">>
    IN  Ok(destination_register, right.ins \o left.ins \o binary_instruction, right.next + 1)

\* visit_binary, after both operands are lowered.
visit_binary(input, left, right) ==
    LET opcode == BinaryOpcode(input.op)
        destination_register == <<Reg(right.next)>>
        binary_instruction ==
            <<"    ", opcode, " ">> \o left.ref \o <<" ">> \o right.ref
                \o <<" ", "into", " ">> \o destination_register \o <<";", "\n">>
    IN  Ok(destination_register, left.ins \o right.ins \o binary_instruction, right.next + 1)

\* visit_unary, after the receiver is lowered.
visit_unary(input, receiver) ==
    LET opcode == UnaryOpcode(input.op)
        destination_register == <<Reg(receiver.next)>>
        unary_instruction ==
            <<"    ", opcode, " ">> \o receiver.ref
                \o <<" ", "into", " ">> \o destination_register \o <<";", "\n">>
    IN  Ok(destination_register, receiver.ins \o unary_instruction, receiver.next + 1)

\* visit_ternary, after the three operands are lowered.
\* visit_ternary appending the prelude of the else-branch before that of
\* the then-branch.
visit_ternary_else_first(condition, if_true, if_false) ==
    LET destination_register == <<Reg(if_false.next)>>
        ternary_instruction ==
            <<"    ", "ternary", " ">> \o condition.ref \o <<" ">> \o if_true.ref
                \o <<" ">> \o if_false.ref
                \o <<" ", "into", " ">> \o destination_register \o <<";", "\n">>
    IN  Ok(destination_register,
           condition.ins \o if_false.ins \o if_true.ins \o ternary_instruction,
           if_false.next + 1)

visit_ternary(condition, if_true, if_false) ==
    LET destination_register == <<Reg(if_false.next)>>
        ternary_instruction ==
            <<"    ", "ternary", " ">> \o condition.ref \o <<" ">> \o if_true.ref
                \o <<" ">> \o if_false.ref
                \o <<" ", "into", " ">> \o destination_register \o <<";", "\n">>
    IN  Ok(destination_register,
           condition.ins \o if_true.ins \o if_false.ins \o ternary_instruction,
           if_false.next + 1)

\* The composite lookup naming a record like a struct, without its
\* visibility.
struct_init_name_bare(input) ==
    IF input.name \in DOMAIN composite_mapping THEN Some(<<input.name>>) ELSE None

\* The composite lookup that opens visit_struct_init: the target type name,
\* or None when the composite is unknown.
struct_init_name(input) ==
    IF input.name \in DOMAIN composite_mapping
    THEN LET is_record == composite_mapping[input.name][1]
             type_ == composite_mapping[input.name][2]
         IN  IF is_record THEN Some(<<input.name, ".", type_>>) ELSE Some(<<input.name>>)
    ELSE None

\* The expression visit_struct_init lowers for a member: its initializer, or
\* its identifier when the member is written in shorthand.
struct_member_expression(member) ==
    IF member.expression # None THEN member.expression[1]
    ELSE Identifier(member.identifier)

\* visit_struct_init, after the members are lowered (members.refs are their
\* operands, members.ins their instructions).
visit_struct_init(name, members) ==
    LET destination_register == <<Reg(members.next)>>
        struct_init_instruction ==
            <<"    ", "cast", " ">>
                \o Concat([i \in 1..Len(members.refs) |-> members.refs[i] \o <<" ">>])
                \o <<"into", " ">> \o destination_register \o <<" ", "as", " ">> \o name
                \o <<";", "\n">>
    IN  Ok(destination_register, members.ins \o struct_init_instruction, members.next + 1)

\* visit_member_access, after the inner expression is lowered.
visit_member_access(input, inner) ==
    LET member_access_instruction == inner.ref \o <<".", input.name>>
    IN  Ok(member_access_instruction, Empty, inner.next)

\* The receiver match that opens visit_associated_function: the opcode, or
\* None when the receiver is not a recognized intrinsic.
associated_function_symbol(input) ==
    IF input.ty.t = "Identifier" /\ input.ty.name \in CoreSymbols
    THEN Some(CoreOpcode(input.ty.name))
    ELSE None

\* visit_associated_function reusing the last register instead of a fresh one.
visit_associated_function_stale(input, symbol, args) ==
    LET destination_register == <<Reg(IF args.next > 0 THEN args.next - 1 ELSE 0)>>
        associated_function_call ==
            <<"    ", input.name, ".", symbol, " ">>
                \o Concat([i \in 1..Len(args.refs) |-> args.refs[i] \o <<" ">>])
                \o <<"into", " ">> \o destination_register \o <<";", "\n">>
    IN  Ok(destination_register, args.ins \o associated_function_call, args.next)

\* visit_associated_function, after the arguments are lowered.
visit_associated_function(input, symbol, args) ==
    LET destination_register == <<Reg(args.next)>>
        associated_function_call ==
            <<"    ", input.name, ".", symbol, " ">>
                \o Concat([i \in 1..Len(args.refs) |-> args.refs[i] \o <<" ">>])
                \o <<"into", " ">> \o destination_register \o <<";", "\n">>
    IN  Ok(destination_register, args.ins \o associated_function_call, args.next + 1)

\* Display of an expression used as a callee.
callee_text(function) ==
    IF function.kind = "Identifier" THEN <<function.name>> ELSE <<"<expr>">>

\* visit_call: the call instruction up to and including its operands.
call_instruction_head(input, args) ==
    LET head ==
            IF input.external # None
            THEN <<"    ", "call", " ", input.external[1], ".aleo/">> \o callee_text(input.function)
            ELSE <<"    ", "call", " ">> \o callee_text(input.function)
    IN  head \o Concat([i \in 1..Len(args.refs) |-> <<" ">> \o args.refs[i]])

\* The Type::Unit arm writing a destination like the other arms.
call_return_unit_into(call_instruction, args) ==
    Ok(<<Reg(args.next)>>,
       args.ins \o call_instruction \o <<" ", "into", " ", Reg(args.next), ";", "\n">>,
       args.next + 1)

\* visit_call, the Type::Unit arm.
call_return_unit(call_instruction, args) ==
    Ok(Empty, args.ins \o call_instruction \o <<";">>, args.next)

\* The loop of the Type::Tuple arm without its increment of the counter.
call_destinations_stuck(len, next) == [i \in 1..len |-> <<Reg(next)>>]

\* visit_call, the loop of the Type::Tuple arm: the destination registers.
call_destinations(len, next) == [i \in 1..len |-> <<Reg(next + i - 1)>>]

\* visit_call, the Type::Tuple arm.
call_return_tuple(tuple, call_instruction, args) ==
    LET len == Len(tuple)
        destinations == Join(call_destinations(len, args.next), <<" ">>)
    IN  IF len \in {0, 1} THEN Panic("unreachable", args.next)
        ELSE Ok(destinations,
                args.ins \o call_instruction \o <<" ", "into", " ">> \o destinations
                    \o <<";", "\n">>,
                args.next + len)

\* visit_call, the arm of every other return type.
call_return_other(call_instruction, args) ==
    LET destination_register == <<Reg(args.next)>>
    IN  Ok(destination_register,
           args.ins \o call_instruction \o <<" ", "into", " ">> \o destination_register
               \o <<";", "\n">>,
           args.next + 1)

\* visit_call, after the arguments are lowered.
visit_call(input, args) ==
    LET call_instruction == call_instruction_head(input, args)
    IN  IF input.function.kind # "Identifier" THEN Panic("unreachable", args.next)
        ELSE IF input.function.name \notin DOMAIN functions THEN Panic("unwrap", args.next)
        ELSE LET return_type == functions[input.function.name]
             IN  CASE return_type.t = "Unit" -> call_return_unit(call_instruction, args)
                   [] return_type.t = "Tuple" ->
                        call_return_tuple(return_type.elements, call_instruction, args)
                   [] OTHER -> call_return_other(call_instruction, args)

\* The tuple lowering taking a register of its own.
visit_tuple_fresh(elements) ==
    Ok(Join(elements.refs, <<" ">>), elements.ins, elements.next + 1)

\* visit_tuple, after the elements are lowered.
visit_tuple(elements) ==
    Ok(Join(elements.refs, <<" ">>), elements.ins, elements.next)

\* The result of lowering a list of expressions left to right: the list of
\* value references, the concatenated preludes and the counter.
NoneVisited(n) == [fail |-> "", refs |-> <<>>, ins |-> Empty, next |-> n]
AlsoVisited(acc, r) ==
    [fail |-> r.fail, refs |-> Append(acc.refs, r.ref), ins |-> acc.ins \o r.ins, next |-> r.next]

RECURSIVE visit_expression(_, _, _)
RECURSIVE visit_each(_, _, _)

\* The `for x in xs.iter() { self.visit_expression(x) ... }` loops.
visit_each(exprs, mapping, acc) ==
    IF Len(exprs) = 0 \/ acc.fail # "" THEN acc
    ELSE visit_each(Tail(exprs), mapping,
                    AlsoVisited(acc, visit_expression(Head(exprs), mapping, acc.next)))

visit_expression(input, mapping, n) ==
    CASE input.kind = "Identifier" -> visit_identifier(input, mapping, n)
      [] input.kind = "Literal" -> visit_value(input, n)
      [] input.kind = "Err" -> Panic("unreachable", n)
      [] input.kind = "Unit" -> Panic("unreachable", n)
      [] input.kind = "Binary" ->
            LET left == visit_expression(input.left, mapping, n)
                right == visit_expression(input.right, mapping, left.next)
            IN  IF left.fail # "" THEN left
                ELSE IF right.fail # "" THEN right
                ELSE visit_binary(input, left, right)
      [] input.kind = "Unary" ->
            LET receiver == visit_expression(input.receiver, mapping, n)
            IN  IF receiver.fail # "" THEN receiver ELSE visit_unary(input, receiver)
      [] input.kind = "Ternary" ->
            LET condition == visit_expression(input.condition, mapping, n)
                if_true == visit_expression(input.if_true, mapping, condition.next)
                if_false == visit_expression(input.if_false, mapping, if_true.next)
            IN  IF condition.fail # "" THEN condition
                ELSE IF if_true.fail # "" THEN if_true
                ELSE IF if_false.fail # "" THEN if_false
                ELSE visit_ternary(condition, if_true, if_false)
      [] input.kind = "Struct" ->
            LET name == struct_init_name(input)
                members ==
                    visit_each([i \in 1..Len(input.members) |->
                                   struct_member_expression(input.members[i])],
                               mapping, NoneVisited(n))
            IN  IF name = None THEN Panic("unreachable", n)
                ELSE IF members.fail # "" THEN Panic(members.fail, members.next)
                ELSE visit_struct_init(name[1], members)
      [] input.kind = "Access" ->
            (CASE input.access = "Member" ->
                    LET inner == visit_expression(input.inner, mapping, n)
                    IN  IF inner.fail # "" THEN inner ELSE visit_member_access(input, inner)
              [] input.access = "AssociatedConstant" -> Panic("todo", n)
              [] input.access = "Tuple" -> Panic("todo", n)
              [] input.access = "AssociatedFunction" ->
                    LET symbol == associated_function_symbol(input)
                        args == visit_each(input.args, mapping, NoneVisited(n))
                    IN  IF symbol = None THEN Panic("unreachable", n)
                        ELSE IF args.fail # "" THEN Panic(args.fail, args.next)
                        ELSE visit_associated_function(input, symbol[1], args))
      [] input.kind = "Call" ->
            LET args == visit_each(input.arguments, mapping, NoneVisited(n))
            IN  IF args.fail # "" THEN Panic(args.fail, args.next) ELSE visit_call(input, args)
      [] input.kind = "Tuple" ->
            LET elements == visit_each(input.elements, mapping, NoneVisited(n))
            IN  IF elements.fail # "" THEN Panic(elements.fail, elements.next) ELSE visit_tuple(elements)

(***************************************************************************)
(* Reading emitted text back.                                              *)
(***************************************************************************)
\* The positions of `text` that lie in a destination list: after an "into"
\* and before the ";" that closes the instruction.
RECURSIVE InDestination(_, _)
InDestination(text, p) ==
    IF p = 0 THEN FALSE
    ELSE IF text[p] = "into" THEN TRUE
    ELSE IF text[p] = ";" THEN FALSE
    ELSE InDestination(text, p - 1)

\* The register lexemes there are (the counter never exceeds RegisterCap).
RegisterCap == MaxInputs + MaxVisits * 16
Registers == {Reg(i) : i \in 0..RegisterCap}

DestinationPositions(text) ==
    {p \in 1..Len(text) : text[p] \in Registers /\ InDestination(text, p)}

\* The destination registers of the instructions of `text`, in emission order.
RECURSIVE SelectPositions(_, _, _)
SelectPositions(text, ps, p) ==
    IF p > Len(text) THEN <<>>
    ELSE IF p \in ps THEN <<text[p]>> \o SelectPositions(text, ps, p + 1)
    ELSE SelectPositions(text, ps, p + 1)

Destinations(text) == SelectPositions(text, DestinationPositions(text), 1)

(***************************************************************************)
(* The expressions handed to the Code Generator.                           *)
(***************************************************************************)
Atoms == {Identifier("v"), Identifier(InputName(1)), Literal("1u8")}
FewAtoms == {Identifier("v"), Literal("1u8")}

\* Lists of 0..MaxArgs expressions: the first from K, the others from J.
ExprLists(K, J) ==
    {<<>>} \cup
    UNION {{[i \in 1..len |-> IF i = 1 THEN a ELSE b] : a \in K, b \in J} : len \in 1..MaxArgs}

MemberLists(K) ==
    {<<StructVariableInitializer("x", Some(e))>> : e \in K}
    \cup {<<StructVariableInitializer("v", None)>>,
          <<StructVariableInitializer(InputName(1), None)>>}
    \cup {[i \in 1..len |-> IF i = 1 THEN StructVariableInitializer("x", Some(e))
                            ELSE StructVariableInitializer("v", None)] :
            e \in K, len \in 2..MaxArgs}

ReceiverTypes ==
    {TypeIdentifier("BHP256"), TypeIdentifier("Pedersen64"), TypeIdentifier("Foo"), TypeInteger}

Callees ==
    {Identifier(f) : f \in DOMAIN functions} \cup {Identifier("f_unknown"), Literal("1u8")}

\* The expressions one level above children drawn from K (J in the
\* positions that are not varied widely).
Over(K, J, binops, unops, types, callees, externals) ==
    {Binary(op, l, r) : op \in binops, l \in K, r \in J}
    \cup {Binary(op, l, r) : op \in binops, l \in J, r \in K}
    \cup {Unary(op, e) : op \in unops, e \in K}
    \cup {Ternary(c, t, f) : c \in J, t \in K, f \in J}
    \cup {MemberAccess(e, "x") : e \in K}
    \cup {AssociatedFunction(ty, "hash", args) : ty \in types, args \in ExprLists(K, J)}
    \cup {Call(fn, ext, args) : fn \in callees, ext \in externals, args \in ExprLists(K, J)}
    \cup {Tuple(es) : es \in ExprLists(K, J) \ {<<>>}}
    \cup {StructInit(name, ms) : name \in {"Point", "Token", "Nowhere"}, ms \in MemberLists(K)}

Level0 == Atoms \cup {UnitExpression, ErrExpression, AssociatedConstant, TupleAccess}

Level1 ==
    Over(Atoms, FewAtoms, {"Add", "AddWrapped", "Eq"}, {"Not", "AbsWrapped"},
         ReceiverTypes, Callees, {None})
    \cup {Call(Identifier(f), Some("ext"), args) :
            f \in {"f_unit", "f_pair"}, args \in {<<>>, <<Identifier("v")>>}}

\* One compound expression of each variant, to nest.
Compound ==
    {Binary("Add", Identifier("v"), Literal("1u8")),
     Unary("Not", Identifier("v")),
     MemberAccess(Identifier("v"), "x"),
     MemberAccess(Binary("Mul", Identifier("v"), Identifier("v")), "x"),
     AssociatedFunction(TypeIdentifier("BHP256"), "hash", <<Identifier("v")>>),
     Call(Identifier("f_pair"), None, <<Identifier("v")>>),
     Call(Identifier("f_unit"), None, <<Identifier("v")>>),
     Tuple(<<Identifier("v"), Unary("Not", Identifier("v"))>>),
     StructInit("Token", <<StructVariableInitializer("x", Some(Literal("1u8")))>>),
     ErrExpression,
     TupleAccess}

Level2 ==
    Over(Compound, {Identifier("v"), Binary("Add", Identifier("v"), Literal("1u8"))},
         {"Sub"}, {"Negate"}, {TypeIdentifier("BHP256")},
         {Identifier("f_one"), Identifier("f_unit"), Identifier("f_triple")}, {None})

Exprs == Level0 \cup Level1 \cup Level2

(***************************************************************************)
(* The Code Generator as a state machine: a function body is lowered one   *)
(* expression at a time; the caller pushes each returned prelude onto the  *)
(* function's instruction text.                                            *)
(***************************************************************************)
NoInput == [kind |-> "None"]
NoResult == Panic("none", 0)

CgInit ==
    \E n \in 0..MaxInputs :
        /\ next_register = n
        /\ first_register = n
        /\ variable_mapping = MappingFor(n)
        /\ issued = <<>>
        /\ cg_visits = 0
        /\ cg_phase = "idle"
        /\ cg_input = NoInput
        /\ cg_start = n
        /\ cg_result = NoResult

\* visit_expression(input) returns.
CgVisit ==
    /\ cg_phase = "idle"
    /\ cg_visits < MaxVisits
    /\ \E input \in Exprs :
        LET result == visit_expression(input, variable_mapping, next_register)
        IN  /\ result.fail = ""
            /\ cg_input' = input
            /\ cg_start' = next_register
            /\ cg_result' = result
            /\ next_register' = result.next
            /\ cg_phase' = "visited"
    /\ cg_visits' = cg_visits + 1
    /\ UNCHANGED <<variable_mapping, first_register, issued>>
    /\ UNCHANGED <<dceVars, handlerVars, recordVars>>

\* visit_expression(input) panics: the counter stays where the visits
\* that returned before the panic have left it.
CgPanic ==
    /\ cg_phase = "idle"
    /\ cg_visits < MaxVisits
    /\ \E input \in Exprs :
        LET result == visit_expression(input, variable_mapping, next_register)
        IN  /\ result.fail # ""
            /\ cg_input' = input
            /\ cg_start' = next_register
            /\ cg_result' = result
            /\ next_register' = result.next
            /\ cg_phase' = "panicked"
    /\ cg_visits' = cg_visits + 1
    /\ UNCHANGED <<variable_mapping, first_register, issued>>
    /\ UNCHANGED <<dceVars, handlerVars, recordVars>>

\* The caller appends the returned prelude to the function's instructions.
CgPush ==
    /\ cg_phase = "visited"
    /\ issued' = issued \o Destinations(cg_result.ins)
    /\ cg_phase' = "idle"
    /\ cg_input' = NoInput
    /\ cg_result' = NoResult
    /\ cg_start' = next_register
    /\ UNCHANGED <<next_register, variable_mapping, first_register, cg_visits>>
    /\ UNCHANGED <<dceVars, handlerVars, recordVars>>

\* The Code Generator is not running.
CgOff ==
    /\ next_register = 0
    /\ first_register = 0
    /\ variable_mapping = MappingFor(0)
    /\ issued = <<>>
    /\ cg_visits = 0
    /\ cg_phase = "off"
    /\ cg_input = NoInput
    /\ cg_start = 0
    /\ cg_result = NoResult

(***************************************************************************)
(* Statements (leo_ast::Statement).                                        *)
(***************************************************************************)
AssertStatement(variant, exprs) == [kind |-> "Assert", variant |-> variant, exprs |-> exprs]
AssignStatement(place, value) == [kind |-> "Assign", place |-> place, value |-> value]
Block(stmts) == [kind |-> "Block", statements |-> stmts]
ConditionalStatement == [kind |-> "Conditional"]
ConsoleStatement == [kind |-> "Console"]
DecrementStatement(mapping, index, amount) ==
    [kind |-> "Decrement", mapping |-> mapping, index |-> index, amount |-> amount]
DefinitionStatement == [kind |-> "Definition"]
ExpressionStatement(expression) == [kind |-> "Expression", expression |-> expression]
IncrementStatement(mapping, index, amount) ==
    [kind |-> "Increment", mapping |-> mapping, index |-> index, amount |-> amount]
IterationStatement == [kind |-> "Iteration"]
ReturnStatement(expression, finalize_arguments) ==
    [kind |-> "Return", expression |-> expression, finalize_arguments |-> finalize_arguments]

\* Statement::dummy: the no-op placeholder, an empty block.
Dummy == Block(<<>>)

(***************************************************************************)
(* DeadCodeEliminator: expressions.  A reconstruction takes the node, the  *)
(* necessity flag and the liveness set, and returns the rebuilt node and   *)
(* the liveness set after it (or the panic that aborted it).               *)
(***************************************************************************)
Rebuilt(expr, used) == [fail |-> "", expr |-> expr, used |-> used]
\* A panic inside a reconstruction: `used` is the liveness set the unwinding
\* leaves, with the names the reconstruction has recorded before the panic.
Aborted(why, used) == [fail |-> why, expr |-> ErrExpression, used |-> used]

reconstruct_identifier(input, necessary, used) ==
    Rebuilt(Identifier(input.name), IF necessary THEN used \cup {input.name} ELSE used)

NoneRebuilt(used) == [fail |-> "", exprs |-> <<>>, used |-> used]
AlsoRebuilt(acc, r) ==
    [fail |-> r.fail, exprs |-> Append(acc.exprs, r.expr), used |-> r.used]

RECURSIVE reconstruct_expression(_, _, _)
RECURSIVE reconstruct_each(_, _, _)

\* `xs.into_iter().map(|x| self.reconstruct_expression(x).0).collect()`
reconstruct_each(exprs, necessary, acc) ==
    IF Len(exprs) = 0 \/ acc.fail # "" THEN acc
    ELSE reconstruct_each(Tail(exprs), necessary,
            AlsoRebuilt(acc, reconstruct_expression(Head(exprs), necessary, acc.used)))

\* reconstruct_struct_init: every member's initializer is reconstructed; a
\* member without one is unreachable!().
reconstruct_struct_init(input, necessary, used) ==
    LET shorthand == \E i \in 1..Len(input.members) : input.members[i].expression = None
        upto == IF shorthand
                THEN (CHOOSE i \in 1..Len(input.members) :
                        /\ input.members[i].expression = None
                        /\ \A j \in 1..(i - 1) : input.members[j].expression # None) - 1
                ELSE Len(input.members)
        members ==
            reconstruct_each([i \in 1..upto |-> input.members[i].expression[1]],
                             necessary, NoneRebuilt(used))
    IN  IF members.fail # "" THEN Aborted(members.fail, members.used)
        ELSE IF shorthand THEN Aborted("unreachable", members.used)
        ELSE Rebuilt(StructInit(input.name,
                        [i \in 1..Len(input.members) |->
                            StructVariableInitializer(input.members[i].identifier,
                                                      Some(members.exprs[i]))]),
                     members.used)

\* ExpressionReconstructor::reconstruct_expression with the trait's default
\* traversals, and the two methods the Dead Code Eliminator overrides.
reconstruct_expression(input, necessary, used) ==
    CASE input.kind = "Identifier" -> reconstruct_identifier(input, necessary, used)
      [] input.kind = "Struct" -> reconstruct_struct_init(input, necessary, used)
      [] input.kind \in {"Literal", "Err", "Unit"} -> Rebuilt(input, used)
      [] input.kind = "Binary" ->
            LET c == reconstruct_each(<<input.left, input.right>>, necessary, NoneRebuilt(used))
            IN  IF c.fail # "" THEN Aborted(c.fail, c.used)
                ELSE Rebuilt(Binary(input.op, c.exprs[1], c.exprs[2]), c.used)
      [] input.kind = "Unary" ->
            LET c == reconstruct_each(<<input.receiver>>, necessary, NoneRebuilt(used))
            IN  IF c.fail # "" THEN Aborted(c.fail, c.used)
                ELSE Rebuilt(Unary(input.op, c.exprs[1]), c.used)
      [] input.kind = "Ternary" ->
            LET c == reconstruct_each(<<input.condition, input.if_true, input.if_false>>,
                                      necessary, NoneRebuilt(used))
            IN  IF c.fail # "" THEN Aborted(c.fail, c.used)
                ELSE Rebuilt(Ternary(c.exprs[1], c.exprs[2], c.exprs[3]), c.used)
      [] input.kind = "Tuple" ->
            LET c == reconstruct_each(input.elements, necessary, NoneRebuilt(used))
            IN  IF c.fail # "" THEN Aborted(c.fail, c.used) ELSE Rebuilt(Tuple(c.exprs), c.used)
      [] input.kind = "Call" ->
            LET f == reconstruct_expression(input.function, necessary, used)
                c == reconstruct_each(input.arguments, necessary, NoneRebuilt(f.used))
            IN  IF f.fail # "" THEN f
                ELSE IF c.fail # "" THEN Aborted(c.fail, c.used)
                ELSE Rebuilt(Call(f.expr, input.external, c.exprs), c.used)
      [] input.kind = "Access" ->
            (CASE input.access = "Member" ->
                    LET c == reconstruct_each(<<input.inner>>, necessary, NoneRebuilt(used))
                    IN  IF c.fail # "" THEN Aborted(c.fail, c.used)
                        ELSE Rebuilt(MemberAccess(c.exprs[1], input.name), c.used)
               [] input.access = "AssociatedFunction" ->
                    LET c == reconstruct_each(input.args, necessary, NoneRebuilt(used))
                    IN  IF c.fail # "" THEN Aborted(c.fail, c.used)
                        ELSE Rebuilt(AssociatedFunction(input.ty, input.name, c.exprs), c.used)
               [] OTHER -> Rebuilt(input, used))

(***************************************************************************)
(* DeadCodeEliminator: statements.  A reconstruction takes the statement   *)
(* and the liveness set, and returns the replacement statement, the        *)
(* liveness set and the necessity flag after it (or the panic).            *)
(***************************************************************************)
Replaced(stmt, used, necessary) ==
    [fail |-> "", stmt |-> stmt, used |-> used, necessary |-> necessary]
Unreachable(used) == [fail |-> "unreachable", stmt |-> Dummy, used |-> used, necessary |-> FALSE]
Failed(why, necessary, used) == [fail |-> why, stmt |-> Dummy, used |-> used, necessary |-> necessary]

reconstruct_assert(input, used) ==
    \* self.is_necessary = true; the operands are reconstructed;
    \* self.is_necessary = false.
    LET c == reconstruct_each(input.exprs, TRUE, NoneRebuilt(used))
    IN  IF c.fail # "" THEN Failed(c.fail, TRUE, c.used)
        ELSE Replaced(AssertStatement(input.variant, c.exprs), c.used, FALSE)

\* The check with `all` in the place of `any`: a tuple place counts as used
\* only when every element is.
lhs_is_used_all(place, used) ==
    CASE place.kind = "Identifier" -> IF place.name \in used THEN "used" ELSE "unused"
      [] place.kind = "Tuple" ->
            IF \E i \in 1..Len(place.elements) : place.elements[i].kind # "Identifier"
            THEN "unreachable"
            ELSE IF \A i \in 1..Len(place.elements) : place.elements[i].name \in used
            THEN "used" ELSE "unused"
      [] OTHER -> "unreachable"

\* The check answering "used" for every well-formed place.
lhs_is_used_always(place, used) ==
    IF place.kind \in {"Identifier", "Tuple"} THEN "used" ELSE "unreachable"

\* The check that opens reconstruct_assign: "used", "unused", or
\* "unreachable" when the place is not an identifier or a tuple of them.
lhs_is_used(place, used) ==
    CASE place.kind = "Identifier" -> IF place.name \in used THEN "used" ELSE "unused"
      [] place.kind = "Tuple" ->
            IF \E i \in 1..Len(place.elements) :
                    /\ \A j \in 1..(i - 1) : place.elements[j].kind = "Identifier"
                                             /\ place.elements[j].name \notin used
                    /\ place.elements[i].kind # "Identifier"
            THEN "unreachable"
            ELSE IF \E i \in 1..Len(place.elements) :
                        /\ place.elements[i].kind = "Identifier"
                        /\ place.elements[i].name \in used
            THEN "used" ELSE "unused"
      [] OTHER -> "unreachable"

\* reconstruct_assign ending the liveness of the names it assigns, as a
\* liveness analysis with kills does.
reconstruct_assign_killing(input, used) ==
    LET lhs == lhs_is_used(input.place, used)
        value == reconstruct_expression(input.value, TRUE, used)
        assigned == IF input.place.kind = "Identifier" THEN {input.place.name}
                    ELSE {input.place.elements[i].name : i \in 1..Len(input.place.elements)}
    IN  CASE lhs = "unreachable" -> Unreachable(used)
          [] lhs = "used" ->
                IF value.fail # "" THEN Failed(value.fail, TRUE, value.used)
                ELSE Replaced(AssignStatement(input.place, value.expr),
                              (used \ assigned) \cup (value.used \ used), FALSE)
          [] lhs = "unused" -> Replaced(Dummy, used, FALSE)

\* reconstruct_assign without the necessity flag set around the value.
reconstruct_assign_flagless(input, used) ==
    LET lhs == lhs_is_used(input.place, used)
        value == reconstruct_expression(input.value, FALSE, used)
    IN  CASE lhs = "unreachable" -> Unreachable(used)
          [] lhs = "used" ->
                IF value.fail # "" THEN Failed(value.fail, FALSE, value.used)
                ELSE Replaced(AssignStatement(input.place, value.expr), value.used, FALSE)
          [] lhs = "unused" -> Replaced(Dummy, used, FALSE)

\* reconstruct_assign reconstructing the value before it looks at the place:
\* an eliminated assignment still marks the identifiers of its value.
reconstruct_assign_marking(input, used) ==
    LET lhs == lhs_is_used(input.place, used)
        value == reconstruct_expression(input.value, TRUE, used)
    IN  CASE lhs = "unreachable" -> Unreachable(used)
          [] lhs = "used" ->
                IF value.fail # "" THEN Failed(value.fail, TRUE, value.used)
                ELSE Replaced(AssignStatement(input.place, value.expr), value.used, FALSE)
          [] lhs = "unused" ->
                IF value.fail # "" THEN Failed(value.fail, TRUE, value.used)
                ELSE Replaced(Dummy, value.used, FALSE)

reconstruct_assign(input, used) ==
    LET lhs == lhs_is_used(input.place, used)
        value == reconstruct_expression(input.value, TRUE, used)
    IN  CASE lhs = "unreachable" -> Unreachable(used)
          [] lhs = "used" ->
                IF value.fail # "" THEN Failed(value.fail, TRUE, value.used)
                ELSE Replaced(AssignStatement(input.place, value.expr), value.used, FALSE)
          [] lhs = "unused" -> Replaced(Dummy, used, FALSE)

reconstruct_decrement(input, used) ==
    LET c == reconstruct_each(<<input.index, input.amount>>, TRUE, NoneRebuilt(used))
    IN  IF c.fail # "" THEN Failed(c.fail, TRUE, c.used)
        ELSE Replaced(DecrementStatement(input.mapping, c.exprs[1], c.exprs[2]), c.used, FALSE)

reconstruct_increment(input, used) ==
    LET c == reconstruct_each(<<input.index, input.amount>>, TRUE, NoneRebuilt(used))
    IN  IF c.fail # "" THEN Failed(c.fail, TRUE, c.used)
        ELSE Replaced(IncrementStatement(input.mapping, c.exprs[1], c.exprs[2]), c.used, FALSE)

reconstruct_expression_statement(input, used) ==
    IF input.expression.kind = "Call"
    THEN LET c == reconstruct_expression(input.expression, TRUE, used)
         IN  IF c.fail # "" THEN Failed(c.fail, TRUE, c.used)
             ELSE Replaced(ExpressionStatement(c.expr), c.used, FALSE)
    ELSE Unreachable(used)

\* reconstruct_return leaving the finalize arguments as they are.
reconstruct_return_plain(input, used) ==
    LET e == reconstruct_expression(input.expression, TRUE, used)
    IN  IF e.fail # "" THEN Failed(e.fail, TRUE, e.used)
        ELSE Replaced(ReturnStatement(e.expr, input.finalize_arguments), e.used, FALSE)

reconstruct_return(input, used) ==
    LET e == reconstruct_expression(input.expression, TRUE, used)
        args == IF input.finalize_arguments = None THEN NoneRebuilt(e.used)
                ELSE reconstruct_each(input.finalize_arguments[1], TRUE, NoneRebuilt(e.used))
    IN  IF e.fail # "" THEN Failed(e.fail, TRUE, e.used)
        ELSE IF args.fail # "" THEN Failed(args.fail, TRUE, args.used)
        ELSE Replaced(ReturnStatement(e.expr,
                        IF input.finalize_arguments = None THEN None ELSE Some(args.exprs)),
                      args.used, FALSE)

\* StatementReconstructor::reconstruct_statement: the dispatch on the kind.
reconstruct_statement(input, used) ==
    CASE input.kind = "Assert" -> reconstruct_assert(input, used)
      [] input.kind = "Assign" -> reconstruct_assign(input, used)
      [] input.kind = "Block" ->
            \* only the placeholder, an empty block, occurs as a nested block
            Replaced(Block(<<>>), used, FALSE)
      [] input.kind = "Conditional" -> Unreachable(used)
      [] input.kind = "Console" -> Unreachable(used)
      [] input.kind = "Decrement" -> reconstruct_decrement(input, used)
      [] input.kind = "Definition" -> Unreachable(used)
      [] input.kind = "Expression" -> reconstruct_expression_statement(input, used)
      [] input.kind = "Increment" -> reconstruct_increment(input, used)
      [] input.kind = "Iteration" -> Unreachable(used)
      [] input.kind = "Return" -> reconstruct_return(input, used)

\* The collected statements returned in the order of the sweep.
ReverseSkipped(seq) == seq

\* Vec::reverse
Reverse(seq) == [i \in 1..Len(seq) |-> seq[Len(seq) + 1 - i]]

(***************************************************************************)
(* The blocks handed to the Dead Code Eliminator.  `a` and `b` are         *)
(* function parameters; x, y and z are assigned in the block.              *)
(***************************************************************************)
Assignments ==
    {AssignStatement(Identifier("x"), Binary("Add", Identifier("a"), Identifier("b"))),
     AssignStatement(Identifier("y"), Binary("Mul", Identifier("x"), Identifier("x"))),
     AssignStatement(Identifier("z"), Identifier("y")),
     AssignStatement(Identifier("x"), Identifier("y")),
     AssignStatement(Tuple(<<Identifier("y"), Identifier("z")>>),
                     Call(Identifier("f_pair"), None, <<Identifier("x")>>)),
     AssignStatement(Identifier("z"),
                     StructInit("Point", <<StructVariableInitializer("x", Some(Identifier("x"))),
                                           StructVariableInitializer("y", Some(Identifier("a")))>>)),
     AssignStatement(Identifier("y"),
                     StructInit("Point", <<StructVariableInitializer("x", None)>>)),
     AssignStatement(Identifier("x"),
                     StructInit("Point", <<StructVariableInitializer("x", Some(Identifier("b"))),
                                           StructVariableInitializer("y", None)>>))}

AlwaysNecessary ==
    {ReturnStatement(Identifier("a"), None),
     ReturnStatement(Identifier("x"), None),
     ReturnStatement(Identifier("y"), Some(<<Identifier("z")>>)),
     AssertStatement("AssertEq", <<Identifier("x"), Identifier("a")>>),
     AssertStatement("Assert", <<Identifier("z")>>),
     AssertStatement("AssertNeq", <<Identifier("y"), Identifier("a")>>),
     IncrementStatement("m", Identifier("a"), Identifier("z")),
     DecrementStatement("m", Identifier("x"), Identifier("a")),
     ExpressionStatement(Call(Identifier("f_unit"), None, <<Identifier("y")>>)),
     AssertStatement("AssertEq",
                     <<Identifier("x"),
                       StructInit("Point", <<StructVariableInitializer("y", None)>>)>>)}

NeverReachable ==
    {ConditionalStatement, ConsoleStatement, DefinitionStatement, IterationStatement,
     ExpressionStatement(Identifier("x")),
     AssignStatement(Literal("1u8"), Identifier("a")),
     AssignStatement(Tuple(<<Identifier("x"), Literal("1u8")>>), Identifier("a"))}

Statements == Assignments \cup AlwaysNecessary \cup NeverReachable

\* The example of the module documentation (dead_code_elimination/mod.rs).
DocExample ==
    <<AssignStatement(Identifier("$var$0"), Binary("Eq", Identifier("flag"), Literal("0u8"))),
      AssignStatement(Identifier("$var$4$5"), Binary("Mul", Identifier("value"), Identifier("value"))),
      AssignStatement(Identifier("$var$1"), Identifier("$var$4$5")),
      AssignStatement(Identifier("value$2"), Identifier("$var$1")),
      AssignStatement(Identifier("value$3"),
                      Ternary(Identifier("$var$0"), Identifier("value$2"), Identifier("value"))),
      AssignStatement(Identifier("value$6"), Binary("Mul", Identifier("$var$1"), Identifier("$var$1"))),
      ReturnStatement(Identifier("value$3"), None)>>

\* No run of the pass came before this one.
NoRun == [ran |-> FALSE, input |-> <<>>, output |-> <<>>]
PreviousRun(input, output) == [ran |-> TRUE, input |-> input, output |-> output]

\* A block drawn statement by statement as the sweep reaches it.
Free == [free |-> TRUE, rest |-> <<>>]
Fixed(block) == [free |-> FALSE, rest |-> block]

(***************************************************************************)
(* The Dead Code Eliminator as a state machine: reconstruct_block sweeps   *)
(* the statements of a block last to first, one reconstruct_statement per  *)
(* step, and then reverses the collected statements.                       *)
(***************************************************************************)
\* DeadCodeEliminator::new(), about to reconstruct a block.
DceInit ==
    /\ used_variables = {}
    /\ is_necessary = FALSE
    /\ dce_phase = "sweep"
    /\ dce_script \in {Free, Fixed(DocExample)}
    /\ dce_block = <<>>
    /\ statements = <<>>
    /\ dce_result = <<>>
    /\ dce_previous = NoRun

\* The Dead Code Eliminator is not running.
DceOff ==
    /\ used_variables = {}
    /\ is_necessary = FALSE
    /\ dce_phase = "off"
    /\ dce_script = Free
    /\ dce_block = <<>>
    /\ statements = <<>>
    /\ dce_result = <<>>
    /\ dce_previous = NoRun

\* The statements the sweep can reach next: the last one the sweep has not
\* reached yet.
NextStatements ==
    IF dce_script.free
    THEN IF Len(dce_block) < MaxStmts THEN Statements ELSE {}
    ELSE IF Len(dce_script.rest) > 0 THEN {dce_script.rest[Len(dce_script.rest)]} ELSE {}

ScriptAfterStep ==
    IF dce_script.free THEN dce_script
    ELSE Fixed(SubSeq(dce_script.rest, 1, Len(dce_script.rest) - 1))

\* One iteration of reconstruct_block's map: reconstruct_statement returns.
DceReconstruct ==
    /\ dce_phase = "sweep"
    /\ \E statement \in NextStatements :
        LET r == reconstruct_statement(statement, used_variables)
        IN  /\ r.fail = ""
            /\ dce_block' = <<statement>> \o dce_block
            /\ statements' = Append(statements, r.stmt)
            /\ used_variables' = r.used
            /\ is_necessary' = r.necessary
    /\ dce_script' = ScriptAfterStep
    /\ UNCHANGED <<dce_phase, dce_result, dce_previous>>
    /\ UNCHANGED <<cgVars, handlerVars, recordVars>>

\* One iteration of reconstruct_block's map: reconstruct_statement panics.
\* The liveness set and the flag stay as the unwinding finds them.
DcePanic ==
    /\ dce_phase = "sweep"
    /\ \E statement \in NextStatements :
        LET r == reconstruct_statement(statement, used_variables)
        IN  /\ r.fail # ""
            /\ dce_block' = <<statement>> \o dce_block
            /\ used_variables' = r.used
            /\ is_necessary' = r.necessary
    /\ dce_phase' = "panicked"
    /\ dce_script' = ScriptAfterStep
    /\ UNCHANGED <<statements, dce_result, dce_previous>>
    /\ UNCHANGED <<cgVars, handlerVars, recordVars>>

\* The map is exhausted: the statements are reversed and the block returned.
DceFinish ==
    /\ dce_phase = "sweep"
    /\ dce_script.free \/ Len(dce_script.rest) = 0
    /\ dce_result' = Reverse(statements)
    /\ dce_phase' = "done"
    /\ UNCHANGED <<used_variables, is_necessary, dce_script, dce_block, statements,
                   dce_previous>>
    /\ UNCHANGED <<cgVars, handlerVars, recordVars>>

\* Pass::do_pass on the block the pass has just returned: a new
\* DeadCodeEliminator (empty liveness set, flag unset) is about to
\* reconstruct that block.
DceRunAgain ==
    /\ dce_phase = "done"
    /\ ~dce_previous.ran
    /\ dce_previous' = PreviousRun(dce_block, dce_result)
    /\ used_variables' = {}
    /\ is_necessary' = FALSE
    /\ dce_phase' = "sweep"
    /\ dce_script' = Fixed(dce_result)
    /\ dce_block' = <<>>
    /\ statements' = <<>>
    /\ dce_result' = <<>>
    /\ UNCHANGED <<cgVars, handlerVars, recordVars>>

(***************************************************************************)
(* The diagnostic Handler (errors/src/emitter/mod.rs).  A handler is the   *)
(* record of its counter, its emitter, the buffer and the standard error   *)
(* stream its emitter writes to, and the borrow flag of its RefCell.  An   *)
(* operation takes the handler and returns the handler after it, or the    *)
(* panic that ended it.                                                    *)
(***************************************************************************)
\* usize, 64 bits wide.  A usize is written in base 2^16, as the sequence
\* of its limbs, the most significant first.
UsizeBits == 64
Limb == 2 ^ 16
Limbs == UsizeBits \div 16

\* The usize of a number below 2^31.
usize(n) ==
    [i \in 1..Limbs |->
        IF i = Limbs THEN n % Limb
        ELSE IF i = Limbs - 1 THEN (n \div Limb) % Limb
        ELSE 0]

\* usize::MAX
usize_MAX == [i \in 1..Limbs |-> Limb - 1]

\* The carry into limb i of the sum of a and b; into limb 0, the carry out
\* of the sum.
RECURSIVE carry_into(_, _, _)
carry_into(a, b, i) ==
    IF i = Limbs THEN 0
    ELSE (a[i + 1] + b[i + 1] + carry_into(a, b, i + 1)) \div Limb

\* usize::overflowing_add: the sum modulo 2^64, and whether it overflowed.
overflowing_add(a, b) ==
    [sum |-> [i \in 1..Limbs |-> (a[i] + b[i] + carry_into(a, b, i)) % Limb],
     overflow |-> carry_into(a, b, 0) > 0]

\* a > b on usize
usize_gt(a, b) ==
    \E i \in 1..Limbs : a[i] > b[i] /\ \A j \in 1..(i - 1) : a[j] = b[j]

\* The errors of the model, each with the exit code of its classification.
LeoErrors ==
    {[message |-> "unexpected token", exit_code |-> 1],
     [message |-> "type mismatch", exit_code |-> 2]}

\* LeoError::exit_code
exit_code(err) == err.exit_code

\* The emitters of the module, and two a client can write: one whose
\* emit_err calls emit_err on the handler that owns it, and one whose
\* emit_err calls err_count on it.
Emitters == {"StderrEmitter", "BufferEmitter", "ReenteringEmitter", "CountingEmitter"}

HandlerState(c, e, buf, printed, flag) ==
    [count |-> c, emitter |-> e, buffer |-> buf, stderr |-> printed, borrow |-> flag]

\* How an operation on the handler ends: it returns, it panics, or it ends
\* the process.
Returns(h) == [fail |-> "", h |-> h, exit |-> None]
Panics(why, h) == [fail |-> why, h |-> h, exit |-> None]
Exits(h, status) == [fail |-> "", h |-> h, exit |-> Some(status)]

\* Result<T, E>
ResultOk(x) == [ok |-> TRUE, is |-> x]
ResultErr(e) == [ok |-> FALSE, is |-> e]

\* RefCell::borrow_mut on Handler::inner: panics unless the cell is unused.
borrow_mut(h) ==
    IF h.borrow = "unused" THEN Returns([h EXCEPT !.borrow = "writing"])
    ELSE Panics("already borrowed: BorrowMutError", h)

\* RefCell::borrow on Handler::inner: panics while the cell is mutably
\* borrowed.
borrow(h) ==
    IF h.borrow # "writing" THEN Returns(h)
    ELSE Panics("already mutably borrowed: BorrowError", h)

\* The RefMut is dropped.
release(h) == [h EXCEPT !.borrow = "unused"]

\* usize::wrapping_add
wrapping_add(a, b) == overflowing_add(a, b).sum

\* usize::saturating_add
saturating_add(a, b) ==
    IF overflowing_add(a, b).overflow THEN usize_MAX ELSE overflowing_add(a, b).sum

\* Handler::err_count
err_count(h) ==
    LET inner == borrow(h)
    IN  [fail |-> inner.fail, value |-> inner.h.count]

\* Handler::had_errors
had_errors(h) ==
    LET n == err_count(h)
    IN  [fail |-> n.fail, value |-> usize_gt(n.value, usize(0))]

\* StderrEmitter::emit_err
StderrEmitter_emit_err(h, err) == Returns([h EXCEPT !.stderr = Append(@, err)])

\* A push that puts the error at the front of the buffer.
ErrBuffer_push_front(buf, err) == <<err>> \o buf

\* ErrBuffer::push
ErrBuffer_push(buf, err) == Append(buf, err)

\* ErrBuffer::into_inner
into_inner(buf) == buf

\* BufferEmitter::emit_err
BufferEmitter_emit_err(h, err) == Returns([h EXCEPT !.buffer = ErrBuffer_push(@, err)])

\* BufferEmitter::extract
extract(buf) == buf

RECURSIVE Handler_emit_err(_, _)

\* An emitter whose emit_err emits the error on the handler that owns it.
ReenteringEmitter_emit_err(h, err) == Handler_emit_err(h, err)

\* An emitter whose emit_err asks the handler that owns it for its count.
CountingEmitter_emit_err(h, err) ==
    LET n == err_count(h)
    IN  IF n.fail # "" THEN Panics(n.fail, h) ELSE Returns(h)

\* Emitter::emit_err on the boxed emitter of the handler.
Emitter_emit_err(h, err) ==
    CASE h.emitter = "StderrEmitter" -> StderrEmitter_emit_err(h, err)
      [] h.emitter = "BufferEmitter" -> BufferEmitter_emit_err(h, err)
      [] h.emitter = "ReenteringEmitter" -> ReenteringEmitter_emit_err(h, err)
      [] h.emitter = "CountingEmitter" -> CountingEmitter_emit_err(h, err)

\* HandlerInner::emit_err with `count += 1` on a wrapping counter.
HandlerInner_emit_err_wrapping(h, err) ==
    Emitter_emit_err([h EXCEPT !.count = wrapping_add(@, usize(1))], err)

\* HandlerInner::emit_err
HandlerInner_emit_err(h, err) ==
    Emitter_emit_err([h EXCEPT !.count = saturating_add(@, usize(1))], err)

\* Handler::emit_err: the cell stays mutably borrowed while the emitter
\* runs; the borrow ends when the call returns or unwinds.
Handler_emit_err(h, err) ==
    LET inner == borrow_mut(h)
    IN  IF inner.fail # "" THEN inner
        ELSE LET done == HandlerInner_emit_err(inner.h, err)
             IN  IF done.fail # "" THEN Panics(done.fail, release(done.h))
                 ELSE Returns(release(done.h))

\* fatal_err ending the process without emitting the error.
fatal_err_unrecorded(h, err) == Exits(h, exit_code(err))

\* Handler::fatal_err
fatal_err(h, err) ==
    LET done == Handler_emit_err(h, err)
    IN  IF done.fail # "" THEN done ELSE Exits(done.h, exit_code(err))

\* extend_if_error taking the closure's Ok at its word.
extend_if_error_trusting(h, res) ==
    IF res.ok THEN [fail |-> "", h |-> h, res |-> res]
    ELSE LET done == Handler_emit_err(h, res.is)
         IN  [fail |-> done.fail, h |-> done.h, res |-> ResultErr(<<>>)]

\* extend_if_error dropping the closure's error.
extend_if_error_silent(h, res) ==
    IF res.ok
    THEN LET had == had_errors(h)
         IN  IF had.fail # "" THEN [fail |-> had.fail, h |-> h, res |-> ResultErr(<<>>)]
             ELSE IF had.value THEN [fail |-> "", h |-> h, res |-> ResultErr(<<>>)]
             ELSE [fail |-> "", h |-> h, res |-> res]
    ELSE [fail |-> "", h |-> h, res |-> ResultErr(<<>>)]

\* Handler::extend_if_error; Err(()) is ResultErr(<<>>).
extend_if_error(h, res) ==
    IF res.ok
    THEN LET had == had_errors(h)
         IN  IF had.fail # "" THEN [fail |-> had.fail, h |-> h, res |-> ResultErr(<<>>)]
             ELSE IF had.value THEN [fail |-> "", h |-> h, res |-> ResultErr(<<>>)]
             ELSE [fail |-> "", h |-> h, res |-> res]
    ELSE LET done == Handler_emit_err(h, res.is)
         IN  [fail |-> done.fail, h |-> done.h, res |-> ResultErr(<<>>)]

\* Handler::with once `logic` has returned `res` to it: extend_if_error,
\* then map_err(|_| buf.extract()).
Handler_with(h, res) ==
    LET extended == extend_if_error(h, res)
    IN  [fail |-> extended.fail, h |-> extended.h,
         res |-> IF extended.res.ok THEN extended.res
                 ELSE ResultErr(extract(extended.h.buffer))]

(***************************************************************************)
(* The handler as a state machine: a client (for Handler::with, the        *)
(* closure) calls the operations of one handler, one call per step.        *)
(***************************************************************************)
NoCall == [op |-> "", arg |-> <<>>]
Called(op, arg) == [op |-> op, arg |-> arg]
NoSeen == [seen |-> FALSE, err_count |-> usize(0), had_errors |-> FALSE, extract |-> None]
Seen(n, had, list) == [seen |-> TRUE, err_count |-> n, had_errors |-> had, extract |-> list]
NoWithResult == ResultErr(<<>>)

\* The ways a handler is made: Handler::default, Handler::new with an
\* emitter of the client, Handler::new_with_buf, Handler::with.
Constructions ==
    {[scope |-> "new", emitter |-> "StderrEmitter"],
     [scope |-> "new", emitter |-> "ReenteringEmitter"],
     [scope |-> "new", emitter |-> "CountingEmitter"],
     [scope |-> "new_with_buf", emitter |-> "BufferEmitter"],
     [scope |-> "with", emitter |-> "BufferEmitter"]}

\* Handler::new: the counter at zero around the given emitter.
HandlerInit ==
    /\ count = usize(0)
    /\ \E made \in Constructions : h_scope = made.scope /\ emitter = made.emitter
    /\ buffer = <<>>
    /\ stderr = <<>>
    /\ h_phase = "running"
    /\ h_call = NoCall
    /\ emitted = <<>>
    /\ pushed = <<>>
    /\ h_seen = NoSeen
    /\ with_result = NoWithResult
    /\ exit_status = None

\* No handler exists.
HandlerOff ==
    /\ count = usize(0)
    /\ emitter = "StderrEmitter"
    /\ buffer = <<>>
    /\ stderr = <<>>
    /\ h_phase = "off"
    /\ h_scope = "new"
    /\ h_call = NoCall
    /\ emitted = <<>>
    /\ pushed = <<>>
    /\ h_seen = NoSeen
    /\ with_result = NoWithResult
    /\ exit_status = None

\* A handler made by Handler::default long ago: its counter has reached one
\* of `Counts`; `emitted` and `stderr` hold what it is handed from now on.
Counts ==
    {usize(0), usize(Limb - 1), [usize(0) EXCEPT ![Limbs] = Limb - 1, ![Limbs - 1] = Limb - 1],
     [usize_MAX EXCEPT ![Limbs] = Limb - 2], usize_MAX}

HandlerLate ==
    /\ count \in Counts
    /\ h_scope = "new"
    /\ emitter = "StderrEmitter"
    /\ buffer = <<>>
    /\ stderr = <<>>
    /\ h_phase = "running"
    /\ h_call = NoCall
    /\ emitted = <<>>
    /\ pushed = <<>>
    /\ h_seen = NoSeen
    /\ with_result = NoWithResult
    /\ exit_status = None

\* The handler between two calls: no borrow is outstanding.
TheHandler == HandlerState(count, emitter, buffer, stderr, "unused")

\* The handler an operation leaves behind.
HandlerBecomes(h) ==
    /\ count' = h.count
    /\ buffer' = h.buffer
    /\ stderr' = h.stderr
    /\ UNCHANGED <<emitter, h_scope>>

\* The client calls handler.emit_err(&err), and the call returns.
HandlerEmit ==
    /\ h_phase = "running"
    /\ Len(emitted) + Len(pushed) < MaxEmits
    /\ \E err \in LeoErrors :
        LET done == Handler_emit_err(TheHandler, err)
        IN  /\ done.fail = ""
            /\ HandlerBecomes(done.h)
            /\ h_call' = Called("emit_err", err)
            /\ emitted' = Append(emitted, err)
    /\ h_seen' = NoSeen
    /\ UNCHANGED <<pushed, h_phase, with_result, exit_status>>
    /\ UNCHANGED <<cgVars, dceVars, recordVars>>

\* The client calls handler.fatal_err(&err), and the process exits.
HandlerFatal ==
    /\ h_phase = "running"
    /\ Len(emitted) + Len(pushed) < MaxEmits
    /\ \E err \in LeoErrors :
        LET done == fatal_err(TheHandler, err)
        IN  /\ done.fail = ""
            /\ HandlerBecomes(done.h)
            /\ h_call' = Called("fatal_err", err)
            /\ emitted' = Append(emitted, err)
            /\ done.exit # None
            /\ exit_status' = done.exit
            /\ h_phase' = "exited"
    /\ h_seen' = NoSeen
    /\ UNCHANGED <<pushed, with_result>>
    /\ UNCHANGED <<cgVars, dceVars, recordVars>>

\* The client calls emit_err or fatal_err, and the call panics.
HandlerPanic ==
    /\ h_phase = "running"
    /\ Len(emitted) + Len(pushed) < MaxEmits
    /\ \E err \in LeoErrors, op \in {"emit_err", "fatal_err"} :
        LET done == IF op = "emit_err" THEN Handler_emit_err(TheHandler, err)
                    ELSE fatal_err(TheHandler, err)
        IN  /\ done.fail # ""
            /\ HandlerBecomes(done.h)
            /\ h_call' = Called(op, err)
            /\ emitted' = Append(emitted, err)
    /\ h_phase' = "panicked"
    /\ h_seen' = NoSeen
    /\ UNCHANGED <<pushed, with_result, exit_status>>
    /\ UNCHANGED <<cgVars, dceVars, recordVars>>

\* An error the client hands to an emitter itself, and the errors it has
\* handed to the emitter `to`.
Handed(to, err) == [to |-> to, err |-> err]
HandedTo(to) ==
    LET those == SelectSeq(pushed, LAMBDA p : p.to = to)
    IN  [i \in 1..Len(those) |-> those[i].err]

\* The client calls emit_err on a StderrEmitter of its own (a unit struct):
\* the error is printed to the standard error, and no handler counts it.
StderrEmit ==
    /\ h_phase = "running"
    /\ Len(emitted) + Len(pushed) < MaxEmits
    /\ \E err \in LeoErrors :
        LET done == StderrEmitter_emit_err(TheHandler, err)
        IN  /\ done.fail = ""
            /\ HandlerBecomes(done.h)
            /\ h_call' = Called("StderrEmitter::emit_err", err)
            /\ pushed' = Append(pushed, Handed("StderrEmitter", err))
    /\ h_seen' = NoSeen
    /\ UNCHANGED <<emitted, h_phase, with_result, exit_status>>
    /\ UNCHANGED <<cgVars, dceVars, recordVars>>

\* The client of Handler::new_with_buf calls emit_err on the BufferEmitter
\* it was handed: the error goes to the buffer the handler's emitter
\* shares, and the handler does not count it.
BufferEmit ==
    /\ h_phase = "running"
    /\ h_scope = "new_with_buf"
    /\ Len(emitted) + Len(pushed) < MaxEmits
    /\ \E err \in LeoErrors :
        LET done == BufferEmitter_emit_err(TheHandler, err)
        IN  /\ done.fail = ""
            /\ HandlerBecomes(done.h)
            /\ h_call' = Called("BufferEmitter::emit_err", err)
            /\ pushed' = Append(pushed, Handed("BufferEmitter", err))
    /\ h_seen' = NoSeen
    /\ UNCHANGED <<emitted, h_phase, with_result, exit_status>>
    /\ UNCHANGED <<cgVars, dceVars, recordVars>>

\* The client calls err_count, had_errors and, where it holds the
\* BufferEmitter, extract.
HandlerObserve ==
    /\ h_phase = "running"
    /\ h_seen' = Seen(err_count(TheHandler).value, had_errors(TheHandler).value,
                      IF emitter = "BufferEmitter" THEN Some(into_inner(extract(buffer)))
                      ELSE None)
    /\ UNCHANGED <<count, emitter, buffer, stderr, h_phase, h_scope, h_call, emitted,
                   pushed, with_result, exit_status>>
    /\ UNCHANGED <<cgVars, dceVars, recordVars>>

\* The values and the results a closure run by Handler::with can return.
Values == {"ast"}
ClosureResults == {ResultOk(v) : v \in Values} \cup {ResultErr(e) : e \in LeoErrors}

\* The closure of Handler::with returns `res`, and Handler::with returns.
HandlerWithReturn ==
    /\ h_phase = "running"
    /\ h_scope = "with"
    /\ \E res \in ClosureResults :
        LET done == Handler_with(TheHandler, res)
        IN  /\ done.fail = ""
            /\ HandlerBecomes(done.h)
            /\ h_call' = Called("return", res)
            /\ with_result' = done.res
    /\ h_phase' = "returned"
    /\ h_seen' = NoSeen
    /\ UNCHANGED <<emitted, pushed, exit_status>>
    /\ UNCHANGED <<cgVars, dceVars, recordVars>>

(***************************************************************************)
(* The record commitment verifier                                          *)
(* (state/src/record_commitment/record_commitment.rs).  The fields of a    *)
(* record stand for their values, in the typed record and in the converted *)
(* one alike; the conversion, the serialisation, the two reads and the     *)
(* commitment are calls into other crates, each of which can fail.         *)
(***************************************************************************)
TypedRecord(owner, is_dummy, nonce, commitment, commitment_randomness) ==
    [owner |-> owner, is_dummy |-> is_dummy, value |-> "0", payload |-> "payload",
     birth_program_id |-> "birth", death_program_id |-> "death",
     serial_number_nonce |-> nonce, commitment |-> commitment,
     commitment_randomness |-> commitment_randomness]

\* DPCRecordValues::try_from(typed_record), when it succeeds.
DPCRecordValues_try_from(typed) ==
    [owner |-> typed.owner, is_dummy |-> typed.is_dummy, value |-> typed.value,
     payload |-> typed.payload, birth_program_id |-> typed.birth_program_id,
     death_program_id |-> typed.death_program_id,
     serial_number_nonce |-> typed.serial_number_nonce,
     commitment |-> typed.commitment,
     commitment_randomness |-> typed.commitment_randomness]

\* The commitment input without the serial number nonce.
record_commitment_input_nonceless(record) ==
    <<record.owner, record.is_dummy, record.value, record.payload,
      record.birth_program_id, record.death_program_id>>

\* to_bytes![owner, is_dummy, value, payload, birth, death, nonce]
record_commitment_input(record) ==
    <<record.owner, record.is_dummy, record.value, record.payload,
      record.birth_program_id, record.death_program_id, record.serial_number_nonce>>

\* CommitmentScheme::commit, binding: two commitments are equal only when
\* the parameters, the inputs and the randomness are.
commit(parameters, input, randomness) ==
    [parameters |-> parameters, input |-> input, randomness |-> randomness]

SystemParameters == "record_commitment"

\* The steps of verify_record_commitment that end in `?`.
FallibleSteps == {"try_from", "to_bytes", "read commitment", "read randomness", "commit"}

\* verify_record_commitment, with `failing` the step that fails.
verify_record_commitment(system_parameters, typed, failing) ==
    IF failing = "try_from" THEN ResultErr("try_from")
    ELSE LET record == DPCRecordValues_try_from(typed)
         IN  IF failing = "to_bytes" THEN ResultErr("to_bytes")
             ELSE IF failing = "read commitment" THEN ResultErr("read commitment")
             ELSE IF failing = "read randomness" THEN ResultErr("read randomness")
             ELSE IF failing = "commit" THEN ResultErr("commit")
             ELSE LET record_commitment ==
                          commit(system_parameters, record_commitment_input(record),
                                 record.commitment_randomness)
                  IN  IF record_commitment = record.commitment
                      THEN ResultOk(record)
                      ELSE ResultErr("CommitmentsDoNotMatch")

\* The records handed to the verifier: the stored commitment is the
\* commitment of some record of the model under some randomness.
Owners == {"aleo1alice", "aleo1bob"}
Nonces == {"nonce0", "nonce1"}
Randomnesses == {"randomness0", "randomness1"}
NoCommitment == commit(SystemParameters, <<>>, "")
RecordValues ==
    {TypedRecord(o, d, n, NoCommitment, "") : o \in Owners, d \in BOOLEAN, n \in Nonces}
\* The owner, is_dummy, value, payload, birth and death program ids and
\* serial number nonce of a record, in that order.
CommittedFields(r) ==
    <<r.owner, r.is_dummy, r.value, r.payload, r.birth_program_id, r.death_program_id,
      r.serial_number_nonce>>
Commitments ==
    {commit(SystemParameters, CommittedFields(r), s) :
        r \in RecordValues, s \in Randomnesses}
TypedRecords ==
    {[r EXCEPT !.commitment = c, !.commitment_randomness = s] :
        r \in RecordValues, c \in Commitments, s \in Randomnesses}

NoTypedRecord == TypedRecord("", FALSE, "", NoCommitment, "")
NoVerdict == ResultErr("")

\* verify_record_commitment is called.
RecordInit ==
    /\ typed_record \in TypedRecords
    /\ rc_failing \in FallibleSteps \cup {"none"}
    /\ rc_phase = "called"
    /\ rc_result = NoVerdict

\* The verifier is not running.
RecordOff ==
    /\ typed_record = NoTypedRecord
    /\ rc_failing = "none"
    /\ rc_phase = "off"
    /\ rc_result = NoVerdict

\* verify_record_commitment returns.
RecordVerify ==
    /\ rc_phase = "called"
    /\ rc_result' = verify_record_commitment(SystemParameters, typed_record, rc_failing)
    /\ rc_phase' = "returned"
    /\ UNCHANGED <<typed_record, rc_failing>>
    /\ UNCHANGED <<cgVars, dceVars, handlerVars>>

(***************************************************************************)
(* Specifications.                                                         *)
(***************************************************************************)
InitCG == CgInit /\ DceOff /\ HandlerOff /\ RecordOff

CgNext == CgVisit \/ CgPanic \/ CgPush

SpecCG == InitCG /\ [][CgNext]_vars

InitDCE == DceInit /\ CgOff /\ HandlerOff /\ RecordOff

DceNext == DceReconstruct \/ DcePanic \/ DceFinish \/ DceRunAgain

SpecDCE == InitDCE /\ [][DceNext]_vars

InitHandler == HandlerInit /\ CgOff /\ DceOff /\ RecordOff

HandlerNext ==
    \/ HandlerEmit \/ HandlerFatal \/ HandlerPanic \/ BufferEmit \/ StderrEmit
    \/ HandlerObserve \/ HandlerWithReturn

SpecHandler == InitHandler /\ [][HandlerNext]_vars

\* The counter of the handler, from any of `Counts` on.
InitCounter == HandlerLate /\ CgOff /\ DceOff /\ RecordOff

CounterNext == HandlerEmit \/ HandlerFatal \/ StderrEmit \/ HandlerObserve

SpecCounter == InitCounter /\ [][CounterNext]_vars

InitRecord == RecordInit /\ CgOff /\ DceOff /\ HandlerOff

RecordNext == RecordVerify

SpecRecord == InitRecord /\ [][RecordNext]_vars

(***************************************************************************)
(* A compiler session: a default handler exists while one of the two       *)
(* passes runs.  The passes hold no handler, and none of their steps       *)
(* touches it.                                                             *)
(***************************************************************************)
\* Handler::default(): Handler::new around the StderrEmitter.
HandlerDefault ==
    /\ HandlerInit
    /\ h_scope = "new"
    /\ emitter = "StderrEmitter"

InitSession ==
    /\ HandlerDefault
    /\ RecordOff
    /\ \/ CgInit /\ DceOff
       \/ DceInit /\ CgOff

SessionNext == CgNext \/ DceNext

SpecSession == InitSession /\ [][SessionNext]_vars

(***************************************************************************)
(* Properties of the Code Generator.                                       *)
(***************************************************************************)
\* The text without its white space.
Words(text) == SelectSeq(text, LAMBDA t : t \notin {" ", "    ", "\n"})

\* Is `whole` the text `prefix` followed by something?
StartsWith(whole, prefix) ==
    Len(prefix) <= Len(whole) /\ SubSeq(whole, 1, Len(prefix)) = prefix
Rest(whole, prefix) == SubSeq(whole, Len(prefix) + 1, Len(whole))

\* How many lexemes of `text` are `lexeme`.
Count(text, lexeme) == Cardinality({p \in 1..Len(text) : text[p] = lexeme})

\* The registers that are values of the name mapping.
MappedRegisters == {variable_mapping[name][1] : name \in DOMAIN variable_mapping} \cap Registers

Visited == cg_phase = "visited"

\* The arguments of the last visited call / associated function, lowered
\* from the counter the visit started with.
ArgsOf(exprs) == visit_each(exprs, variable_mapping, NoneVisited(cg_start))

\* C1: in a function whose counter starts at 0, the destination registers of
\* the instructions emitted so far are, in emission order, r0, r1, r2, ...
\* with no gap.
C1_RegisterMonotonicity ==
    first_register = 0 /\ cg_phase \in {"idle", "visited"}
        => issued = [i \in 1..Len(issued) |-> Reg(i - 1)]

\* C2: every register (not a value of the name mapping) that the returned
\* value reference names, or that an instruction of the returned prelude
\* reads, is the destination of an earlier instruction of that prelude.
C2_PreludeDefinesItsRegisters ==
    Visited =>
        LET text == cg_result.ins
            ref == cg_result.ref
            dests == DestinationPositions(text)
        IN  /\ \A p \in 1..Len(text) :
                    text[p] \in Registers \ MappedRegisters /\ p \notin dests
                        => \E q \in dests : q < p /\ text[q] = text[p]
            /\ \A p \in 1..Len(ref) :
                    ref[p] \in Registers \ MappedRegisters
                        => \E q \in dests : text[q] = ref[p]

\* C3: the prelude of `a op b` is the prelude of a, then the prelude of b,
\* then one binary instruction, whose destination is above every register
\* allocated while lowering a and b.
C3_BinaryEvaluationOrder ==
    Visited /\ cg_input.kind = "Binary" =>
        LET a == visit_expression(cg_input.left, variable_mapping, cg_start)
            b == visit_expression(cg_input.right, variable_mapping, a.next)
            operands == a.ins \o b.ins
            last == Rest(cg_result.ins, operands)
        IN  /\ StartsWith(cg_result.ins, a.ins)
            /\ StartsWith(cg_result.ins, operands)
            /\ Count(last, ";") = 1 /\ Count(last, "into") = 1
            /\ Words(last) = <<BinaryOpcode(cg_input.op)>> \o Words(a.ref) \o Words(b.ref)
                                \o <<"into", Reg(b.next), ";">>
            /\ cg_result.ref = <<Reg(b.next)>>
            /\ \A i \in 0..RegisterCap :
                    Reg(i) \in {operands[p] : p \in DestinationPositions(operands)} => i < b.next
            /\ a.next >= cg_start /\ b.next >= a.next

C3_Witness ==
    /\ Visited /\ cg_input.kind = "Binary"
    /\ visit_expression(cg_input.left, variable_mapping, cg_start).ins # Empty
    /\ visit_expression(cg_input.right, variable_mapping,
                        visit_expression(cg_input.left, variable_mapping, cg_start).next).ins
            # Empty

\* The declared output type of the callee of the last visited call.
CalleeType == functions[cg_input.function.name]
IsCallReturning(t) ==
    /\ Visited /\ cg_input.kind = "Call"
    /\ CalleeType.t = t

\* C4: a call to a function declared to return an N-tuple (N >= 2) writes N
\* fresh, distinct, consecutive registers, allocated after the arguments,
\* as the destinations of one call instruction, and returns them
\* space-joined in increasing order; the counter advances by N.
C4_TupleDestinationArity ==
    IsCallReturning("Tuple") =>
        LET args == ArgsOf(cg_input.arguments)
            N == Len(CalleeType.elements)
            last == Rest(cg_result.ins, args.ins)
            regs == [i \in 1..N |-> Reg(args.next + i - 1)]
        IN  /\ N >= 2
            /\ StartsWith(cg_result.ins, args.ins)
            /\ Count(last, "call") = 1 /\ Count(last, ";") = 1
            /\ Destinations(last) = regs
            /\ Cardinality({regs[i] : i \in 1..N}) = N
            /\ cg_result.ref = Join([i \in 1..N |-> <<regs[i]>>], <<" ">>)
            /\ next_register = args.next + N

C4_Witness ==
    /\ IsCallReturning("Tuple")
    /\ Len(CalleeType.elements) = 3
    /\ ArgsOf(cg_input.arguments).next > cg_start

\* C5: a call to a unit function emits, after its arguments' preludes, one
\* call instruction listing the argument references in order without any
\* destination, returns the empty value reference and allocates nothing.
C5_UnitCall ==
    IsCallReturning("Unit") =>
        LET args == ArgsOf(cg_input.arguments)
            last == Rest(cg_result.ins, args.ins)
            callee ==
                IF cg_input.external = None THEN <<cg_input.function.name>>
                ELSE <<cg_input.external[1], ".aleo/", cg_input.function.name>>
        IN  /\ StartsWith(cg_result.ins, args.ins)
            /\ Words(last) = <<"call">> \o callee
                                \o Concat([i \in 1..Len(args.refs) |-> Words(args.refs[i])])
                                \o <<";">>
            /\ cg_result.ref = Empty
            /\ next_register = args.next

C5_Witness ==
    /\ IsCallReturning("Unit")
    /\ cg_input.arguments = <<Identifier("v")>>
    /\ cg_input.external = None
    /\ Words(cg_result.ins) = <<"call", "f_unit", "v", ";">>

IsIntrinsicCall ==
    /\ Visited /\ cg_input.kind = "Access" /\ cg_input.access = "AssociatedFunction"

\* The scenario of C6: a call on the 256-bit hash type with one argument that
\* is an identifier or a literal, lowered with the counter at 0.
IsHashOfAtom ==
    /\ IsIntrinsicCall
    /\ cg_input.ty = TypeIdentifier("BHP256")
    /\ Len(cg_input.args) = 1
    /\ cg_input.args[1].kind \in {"Identifier", "Literal"}
    /\ cg_start = 0

\* C6 as claimed: the call of the scenario emits exactly `bhp256 v into r0;`
\* and returns r0.
C6_HashEmitsBareOpcode ==
    IsHashOfAtom =>
        /\ Words(cg_result.ins)
                = <<"bhp256">> \o ArgsOf(cg_input.args).refs[1] \o <<"into", "r0", ";">>
        /\ cg_result.ref = <<"r0">>

\* C6, amended: an associated-function call on a recognized intrinsic type
\* emits its arguments' preludes in order followed by exactly one
\* instruction `<function>.<opcode> args... into r;` into one fresh
\* register, the opcode fixed by the receiver type; the call of the scenario
\* emits exactly `<function>.bhp256 v into r0;` and returns r0.
C6_IntrinsicCall ==
    /\ IsIntrinsicCall =>
        LET args == ArgsOf(cg_input.args)
            last == Rest(cg_result.ins, args.ins)
        IN  /\ StartsWith(cg_result.ins, args.ins)
            /\ Words(last) = <<cg_input.name, ".", CoreOpcode(cg_input.ty.name)>>
                                \o Concat([i \in 1..Len(args.refs) |-> Words(args.refs[i])])
                                \o <<"into", Reg(args.next), ";">>
            /\ cg_result.ref = <<Reg(args.next)>>
            /\ next_register = args.next + 1
    /\ IsHashOfAtom =>
        /\ Words(cg_result.ins)
                = <<cg_input.name, ".", "bhp256">> \o ArgsOf(cg_input.args).refs[1]
                    \o <<"into", "r0", ";">>
        /\ cg_result.ref = <<"r0">>

C6_Witness ==
    /\ IsHashOfAtom
    /\ cg_result.ins = <<"    ", "hash", ".", "bhp256", " ", "v", " ", "into", " ", "r0", ";", "\n">>

\* C20: the prelude of `c ? t : f` is the prelude of c, then that of t,
\* then that of f, each lowered from the counter the one before left, and
\* then exactly one instruction `ternary c t f into r;`, whose destination
\* r is allocated after every register of the three operands.
C20_TernaryLowering ==
    Visited /\ cg_input.kind = "Ternary" =>
        LET c == visit_expression(cg_input.condition, variable_mapping, cg_start)
            t == visit_expression(cg_input.if_true, variable_mapping, c.next)
            f == visit_expression(cg_input.if_false, variable_mapping, t.next)
            operands == c.ins \o t.ins \o f.ins
            last == Rest(cg_result.ins, operands)
        IN  /\ StartsWith(cg_result.ins, c.ins)
            /\ StartsWith(cg_result.ins, c.ins \o t.ins)
            /\ StartsWith(cg_result.ins, operands)
            /\ last = <<"    ", "ternary", " ">> \o c.ref \o <<" ">> \o t.ref \o <<" ">> \o f.ref
                        \o <<" ", "into", " ", Reg(f.next), ";", "\n">>
            /\ Count(last, ";") = 1 /\ Count(last, "into") = 1 /\ Count(last, "ternary") = 1
            /\ cg_result.ref = <<Reg(f.next)>>
            /\ cg_result.next = f.next + 1
            /\ \A i \in 0..RegisterCap :
                    Reg(i) \in {operands[p] : p \in DestinationPositions(operands)} => i < f.next
            /\ c.next >= cg_start /\ t.next >= c.next /\ f.next >= t.next

\* The three operands each have a prelude, and the two branches differ.
C20_Witness ==
    /\ Visited /\ cg_input.kind = "Ternary"
    /\ cg_input.if_true # cg_input.if_false
    /\ LET c == visit_expression(cg_input.condition, variable_mapping, cg_start)
           t == visit_expression(cg_input.if_true, variable_mapping, c.next)
           f == visit_expression(cg_input.if_false, variable_mapping, t.next)
       IN  c.ins # Empty /\ t.ins # Empty /\ f.ins # Empty /\ t.ins # f.ins

\* C21: every instruction of a prelude is one complete line: each `;` is
\* followed at once by a line break, so that a prelude has as many line
\* breaks as it has instructions, whatever the kind of the instructions.
C21_OneInstructionPerLine ==
    Visited =>
        /\ \A p \in 1..Len(cg_result.ins) :
                cg_result.ins[p] = ";" =>
                    p < Len(cg_result.ins) /\ cg_result.ins[p + 1] = "\n"
        /\ Count(cg_result.ins, ";") = Count(cg_result.ins, "\n")

\* The members of the last visited struct initializer, lowered in member
\* order from the counter the visit started with.
MembersOf(input) ==
    visit_each([i \in 1..Len(input.members) |-> struct_member_expression(input.members[i])],
               variable_mapping, NoneVisited(cg_start))

\* C22: a struct or record construction emits the preludes of its members
\* in member order and then exactly one `cast` instruction: its operands
\* are the members' value references in member order (the mapped storage of
\* its identifier for a member in shorthand), its destination is one fresh
\* register, and its type is the composite's name, followed by `.` and the
\* visibility when the composite is a record.
C22_StructInit ==
    Visited /\ cg_input.kind = "Struct" =>
        LET members == MembersOf(cg_input)
            last == Rest(cg_result.ins, members.ins)
            composite == composite_mapping[cg_input.name]
            type_name == IF composite[1] THEN <<cg_input.name, ".", composite[2]>>
                         ELSE <<cg_input.name>>
        IN  /\ StartsWith(cg_result.ins, members.ins)
            /\ Len(members.refs) = Len(cg_input.members)
            /\ \A i \in 1..Len(cg_input.members) :
                    cg_input.members[i].expression = None =>
                        members.refs[i] = variable_mapping[cg_input.members[i].identifier]
            /\ Words(last) = <<"cast">> \o Words(Concat(members.refs))
                                \o <<"into", Reg(members.next), "as">> \o type_name \o <<";">>
            /\ last = <<"    ", "cast", " ">>
                        \o Concat([i \in 1..Len(members.refs) |-> members.refs[i] \o <<" ">>])
                        \o <<"into", " ", Reg(members.next), " ", "as", " ">> \o type_name
                        \o <<";", "\n">>
            /\ Count(last, "cast") = 1 /\ Count(last, ";") = 1 /\ Count(last, "into") = 1
            /\ cg_result.ref = <<Reg(members.next)>>
            /\ cg_result.next = members.next + 1
            /\ \A i \in 0..RegisterCap :
                    Reg(i) \in {members.ins[p] : p \in DestinationPositions(members.ins)}
                        => i < members.next

\* A record is built from a member with a prelude and a member in shorthand.
C22_Witness ==
    /\ Visited /\ cg_input.kind = "Struct"
    /\ composite_mapping[cg_input.name][1]
    /\ Len(cg_input.members) = 2
    /\ cg_input.members[2].expression = None
    /\ MembersOf(cg_input).ins # Empty

\* The lowering of the i-th element of the last visited tuple: the element
\* is visited with the counter its predecessors left.
ElementOf(input, i) ==
    visit_expression(input.elements[i], variable_mapping,
                     visit_each(SubSeq(input.elements, 1, i - 1), variable_mapping,
                                NoneVisited(cg_start)).next)

\* C23: a tuple expression lowers its elements left to right; its value
\* reference is the elements' references in order, joined by single spaces,
\* and its prelude is the concatenation of the elements' preludes: it emits
\* no instruction and takes no register of its own.
C23_TupleLowering ==
    Visited /\ cg_input.kind = "Tuple" =>
        LET n == Len(cg_input.elements)
            element == [i \in 1..n |-> ElementOf(cg_input, i)]
        IN  /\ \A i \in 1..n : element[i].fail = ""
            /\ cg_result.ins = Concat([i \in 1..n |-> element[i].ins])
            /\ cg_result.ref = Join([i \in 1..n |-> element[i].ref], <<" ">>)
            /\ Words(cg_result.ref) = Concat([i \in 1..n |-> Words(element[i].ref)])
            /\ Count(cg_result.ins, ";") = Count(Concat([i \in 1..n |-> element[i].ins]), ";")
            /\ cg_result.next = IF n = 0 THEN cg_start ELSE element[n].next

\* A tuple of two elements is lowered, both with a prelude of their own.
C23_Witness ==
    /\ Visited /\ cg_input.kind = "Tuple"
    /\ Len(cg_input.elements) = 2
    /\ \A i \in 1..2 : ElementOf(cg_input, i).ins # Empty
    /\ ElementOf(cg_input, 1).ref # ElementOf(cg_input, 2).ref

\* The expressions a visit of `input` visits in turn.
Children(input) ==
    CASE input.kind = "Binary" -> <<input.left, input.right>>
      [] input.kind = "Unary" -> <<input.receiver>>
      [] input.kind = "Ternary" -> <<input.condition, input.if_true, input.if_false>>
      [] input.kind = "Struct" ->
            [i \in 1..Len(input.members) |->
                IF input.members[i].expression = None
                THEN Identifier(input.members[i].identifier)
                ELSE input.members[i].expression[1]]
      [] input.kind = "Access" /\ input.access = "Member" -> <<input.inner>>
      [] input.kind = "Access" /\ input.access = "AssociatedFunction" -> input.args
      [] input.kind = "Call" -> input.arguments
      [] input.kind = "Tuple" -> input.elements
      [] OTHER -> <<>>

\* The failures the expression `input` is by itself, whatever its children.
OwnFailures(input, mapping) ==
    {why \in {"unit or err", "unmapped identifier", "unknown composite", "unknown receiver",
              "unknown callee", "short tuple type", "associated constant", "tuple access",
              "callee not an identifier"} :
        CASE why = "unit or err" -> input.kind \in {"Unit", "Err"}
          [] why = "unmapped identifier" ->
                input.kind = "Identifier" /\ input.name \notin DOMAIN mapping
          [] why = "unknown composite" ->
                input.kind = "Struct" /\ input.name \notin DOMAIN composite_mapping
          [] why = "unknown receiver" ->
                /\ input.kind = "Access" /\ input.access = "AssociatedFunction"
                /\ ~(input.ty.t = "Identifier" /\ input.ty.name \in CoreSymbols)
          [] why = "unknown callee" ->
                /\ input.kind = "Call" /\ input.function.kind = "Identifier"
                /\ input.function.name \notin DOMAIN functions
          [] why = "short tuple type" ->
                /\ input.kind = "Call" /\ input.function.kind = "Identifier"
                /\ input.function.name \in DOMAIN functions
                /\ functions[input.function.name].t = "Tuple"
                /\ Len(functions[input.function.name].elements) < 2
          [] why = "associated constant" ->
                input.kind = "Access" /\ input.access = "AssociatedConstant"
          [] why = "tuple access" -> input.kind = "Access" /\ input.access = "Tuple"
          [] why = "callee not an identifier" ->
                input.kind = "Call" /\ input.function.kind # "Identifier"}

\* Does the expression `input`, or an expression inside it, fail in one of
\* the ways of `cases`?
RECURSIVE Reaches(_, _, _)
Reaches(input, mapping, cases) ==
    \/ OwnFailures(input, mapping) \cap cases # {}
    \/ \E i \in 1..Len(Children(input)) : Reaches(Children(input)[i], mapping, cases)

\* The failures of an internal invariant that C26 lists.
Listed ==
    {"unit or err", "unmapped identifier", "unknown composite", "unknown receiver",
     "unknown callee", "short tuple type"}

\* The failures besides: the accesses not implemented yet, and a callee that
\* is not an identifier.
Unlisted == {"associated constant", "tuple access", "callee not an identifier"}

\* C26 as stated: visit_expression fails, and returns no result, whenever
\* lowering reaches a Unit or Err expression, an unmapped identifier, an
\* unknown composite, a receiver outside the intrinsic set, an unknown
\* callee or a tuple output type of fewer than two elements; in every other
\* case it returns a result.
C26_FailsOnlyAsListed ==
    cg_phase \in {"visited", "panicked"} =>
        (cg_phase = "panicked" <=> Reaches(cg_input, variable_mapping, Listed))

\* C26, amended: visit_expression fails exactly when lowering reaches one of
\* the listed expressions, an associated-constant access or a tuple access
\* (both not implemented yet), or a call whose callee is not an identifier;
\* a failed visit returns no result.
C26_FailsExactlyWhen ==
    cg_phase \in {"visited", "panicked"} =>
        /\ cg_phase = "panicked" <=> Reaches(cg_input, variable_mapping, Listed \cup Unlisted)
        /\ cg_phase = "panicked" =>
                /\ cg_result.fail \in {"unwrap", "unreachable", "todo"}
                /\ cg_result.ref = Empty /\ cg_result.ins = Empty
        /\ cg_phase = "visited" => cg_result.fail = ""
        /\ cg_result.fail = "todo" =>
                Reaches(cg_input, variable_mapping, {"associated constant", "tuple access"})

\* A visit has failed on an expression that holds an access not implemented
\* yet and none of the listed failures.
C26_Witness ==
    /\ cg_phase = "panicked"
    /\ cg_input.kind = "Binary"
    /\ Reaches(cg_input, variable_mapping, Unlisted)
    /\ ~Reaches(cg_input, variable_mapping, Listed)

(***************************************************************************)
(* Properties of the Dead Code Eliminator.                                 *)
(***************************************************************************)
\* The variables an expression references.
RECURSIVE Identifiers(_)
Identifiers(e) ==
    CASE e.kind = "Identifier" -> {e.name}
      [] e.kind = "Binary" -> Identifiers(e.left) \cup Identifiers(e.right)
      [] e.kind = "Unary" -> Identifiers(e.receiver)
      [] e.kind = "Ternary" ->
            Identifiers(e.condition) \cup Identifiers(e.if_true) \cup Identifiers(e.if_false)
      [] e.kind = "Tuple" -> UNION {Identifiers(e.elements[i]) : i \in 1..Len(e.elements)}
      [] e.kind = "Call" -> UNION {Identifiers(e.arguments[i]) : i \in 1..Len(e.arguments)}
      [] e.kind = "Struct" ->
            UNION {Identifiers(struct_member_expression(e.members[i])) :
                        i \in 1..Len(e.members)}
      [] e.kind = "Access" /\ e.access = "Member" -> Identifiers(e.inner)
      [] e.kind = "Access" /\ e.access = "AssociatedFunction" ->
            UNION {Identifiers(e.args[i]) : i \in 1..Len(e.args)}
      [] OTHER -> {}

\* The expressions a statement evaluates.
StatementExpressions(st) ==
    CASE st.kind = "Assign" -> {st.value}
      [] st.kind = "Assert" -> {st.exprs[i] : i \in 1..Len(st.exprs)}
      [] st.kind \in {"Increment", "Decrement"} -> {st.index, st.amount}
      [] st.kind = "Expression" -> {st.expression}
      [] st.kind = "Return" ->
            {st.expression} \cup
            (IF st.finalize_arguments = None THEN {}
             ELSE {st.finalize_arguments[1][i] : i \in 1..Len(st.finalize_arguments[1])})
      [] OTHER -> {}

\* The variables a statement references, and those it assigns.
Uses(st) == UNION {Identifiers(e) : e \in StatementExpressions(st)}
Targets(st) ==
    IF st.kind # "Assign" THEN {}
    ELSE IF st.place.kind = "Identifier" THEN {st.place.name}
    ELSE IF st.place.kind = "Tuple"
    THEN {st.place.elements[i].name :
            i \in {k \in 1..Len(st.place.elements) : st.place.elements[k].kind = "Identifier"}}
    ELSE {}

NecessaryKinds == {"Assert", "Increment", "Decrement", "Expression", "Return"}

\* Static single assignment, straight line: every variable is assigned at
\* most once, and before its uses.
IsSSA(block) ==
    /\ \A i, j \in 1..Len(block) : i < j => Targets(block[i]) \cap Targets(block[j]) = {}
    /\ \A i, j \in 1..Len(block) : Targets(block[i]) \cap Uses(block[j]) # {} => i < j

Done == dce_phase = "done"

\* C7: liveness soundness.  In the output of a block in SSA form, every
\* variable a kept statement references is never assigned in the block (a
\* parameter) or is assigned by a kept assignment.
C7_LivenessSoundness ==
    Done /\ IsSSA(dce_block) =>
        \A j \in 1..Len(dce_result) :
            dce_result[j] # Dummy =>
                \A v \in Uses(dce_result[j]) :
                    \/ \A i \in 1..Len(dce_block) : v \notin Targets(dce_block[i])
                    \/ \E i \in 1..Len(dce_result) :
                            dce_result[i] # Dummy /\ v \in Targets(dce_result[i])

C7_Witness ==
    /\ Done /\ IsSSA(dce_block)
    /\ Len(dce_block) = 3
    /\ dce_result[1] # Dummy /\ dce_result[1].kind = "Assign"
    /\ dce_result[2] = Dummy
    /\ Targets(dce_result[1]) \cap Uses(dce_result[3]) # {}

\* A step of the sweep that reconstructs a statement of one of `kinds` and
\* returns.
ReconstructedOneOf(kinds) ==
    /\ dce_phase = "sweep" /\ dce_phase' = "sweep"
    /\ Len(dce_block') = Len(dce_block) + 1
    /\ Head(dce_block').kind \in kinds

\* C8: an assignment is kept if and only if one of its left-hand identifiers
\* is in the liveness set when it is visited; kept, it is retained whole
\* and the identifiers of its right-hand side join the liveness set;
\* otherwise it becomes the placeholder and the liveness set is unchanged.
C8_AssignKeptIffUsed ==
    [][ReconstructedOneOf({"Assign"}) =>
            LET input == Head(dce_block')
                output == statements'[Len(statements')]
                kept == output # Dummy
            IN  /\ kept <=> Targets(input) \cap used_variables # {}
                /\ kept => /\ output = input
                           /\ output.place = input.place
                           /\ Identifiers(input.value) \subseteq used_variables'
                           /\ used_variables \subseteq used_variables'
                /\ ~kept => /\ output = Dummy
                            /\ used_variables' = used_variables]_vars

C8_Witness ==
    /\ dce_phase = "sweep" /\ Len(dce_block) >= 2
    /\ dce_block[1].kind = "Assign" /\ dce_block[1].place.kind = "Tuple"
    /\ statements[Len(statements)] = dce_block[1]
    /\ "y" \in used_variables /\ "z" \notin used_variables /\ "x" \in used_variables

\* C9: assertions, increments, decrements, call statements and returns are
\* kept whatever the liveness set holds, and every identifier of their
\* sub-expressions (a return's finalize arguments included) is live after.
C9_NecessaryStatementsKept ==
    [][ReconstructedOneOf(NecessaryKinds) =>
            LET input == Head(dce_block')
                output == statements'[Len(statements')]
            IN  /\ output = input
                /\ Uses(input) \subseteq used_variables'
                /\ used_variables \subseteq used_variables']_vars

C9_Witness ==
    /\ dce_phase = "sweep" /\ Len(dce_block) = 1
    /\ dce_block[1].kind = "Return" /\ dce_block[1].finalize_arguments # None
    /\ statements = dce_block
    /\ used_variables = {"y", "z"}

\* The statements an iterative backward liveness analysis keeps: the
\* always-necessary ones, and every assignment one of whose targets a kept
\* statement later in the block references.
Grow(block, S) ==
    S \cup {i \in 1..Len(block) :
                /\ block[i].kind = "Assign"
                /\ \E j \in S : j > i /\ Targets(block[i]) \cap Uses(block[j]) # {}}

RECURSIVE Fixpoint(_, _)
Fixpoint(block, S) == IF Grow(block, S) = S THEN S ELSE Fixpoint(block, Grow(block, S))

LiveStatements(block) ==
    Fixpoint(block, {i \in 1..Len(block) : block[i].kind \in NecessaryKinds})

\* `x = a + b; y = x * x; return a;`
Scenario ==
    <<AssignStatement(Identifier("x"), Binary("Add", Identifier("a"), Identifier("b"))),
      AssignStatement(Identifier("y"), Binary("Mul", Identifier("x"), Identifier("x"))),
      ReturnStatement(Identifier("a"), None)>>

\* C10: on SSA input the single backward sweep keeps exactly the statements
\* the iterative fixpoint keeps; the scenario becomes two placeholders and
\* `return a;`, and of the documentation example only the sixth statement
\* is eliminated.
C10_SweepIsFixpoint ==
    /\ Done /\ IsSSA(dce_block) =>
            /\ Len(dce_result) = Len(dce_block)
            /\ \A i \in 1..Len(dce_block) :
                    IF i \in LiveStatements(dce_block)
                    THEN dce_result[i] = dce_block[i]
                    ELSE dce_result[i] = Dummy
    /\ Done /\ dce_block = Scenario =>
            dce_result = <<Dummy, Dummy, ReturnStatement(Identifier("a"), None)>>
    /\ Done /\ dce_block = DocExample =>
            dce_result = [DocExample EXCEPT ![6] = Dummy]

C10_Witness ==
    /\ Done /\ dce_block = DocExample /\ IsSSA(dce_block)
    /\ Cardinality(LiveStatements(dce_block)) = 6

\* The pass has run on the output of a previous run and has returned.
DoneAgain == Done /\ dce_previous.ran

\* C11: dead code idempotence.  Run on the output of a previous run, with
\* a new, empty liveness set, the pass does not panic and returns that
\* output unchanged: every assignment the first run kept is kept, and
\* every placeholder stays a placeholder.
C11_Idempotence ==
    /\ dce_previous.ran => dce_phase # "panicked"
    /\ DoneAgain =>
            /\ dce_block = dce_previous.output
            /\ dce_result = dce_previous.output
            /\ \A i \in 1..Len(dce_block) :
                    /\ dce_block[i] # Dummy => dce_result[i] # Dummy
                    /\ dce_block[i] = Dummy => dce_result[i] = Dummy

C11_Witness ==
    /\ DoneAgain /\ IsSSA(dce_previous.input)
    /\ Len(dce_previous.input) = 3
    /\ dce_previous.input[1].kind = "Assign" /\ dce_previous.input[2].kind = "Assign"
    /\ dce_block[1] # Dummy /\ dce_block[2] = Dummy
    /\ dce_result = dce_block

\* C12: reconstruct_block returns as many statements as it was given, in
\* the order it was given them: the statement at each position is the
\* input statement of that position, unchanged, or the placeholder, and
\* only an assignment is replaced by the placeholder.
C12_BlockFrame ==
    Done =>
        /\ Len(dce_result) = Len(dce_block)
        /\ \A i \in 1..Len(dce_block) :
                \/ dce_result[i] = dce_block[i]
                \/ dce_result[i] = Dummy /\ dce_block[i].kind = "Assign"

C12_Witness ==
    /\ Done /\ ~dce_previous.ran
    /\ Len(dce_block) = 3
    /\ dce_block[1].kind = "Assign" /\ dce_result[1] = Dummy
    /\ dce_block[2].kind = "Assign" /\ dce_result[2] = dce_block[2]
    /\ dce_block[2].value.kind = "Binary"
    /\ dce_block[3].kind = "Return" /\ dce_result[3] = dce_block[3]

\* A statement that cannot occur at this phase: a conditional, console,
\* definition or iteration statement, an expression statement that is not a
\* call, or an assignment whose place is neither an identifier nor a tuple
\* of identifiers.
CannotOccur(statement) ==
    \/ statement.kind \in {"Conditional", "Console", "Definition", "Iteration"}
    \/ statement.kind = "Expression" /\ statement.expression.kind # "Call"
    \/ /\ statement.kind = "Assign"
       /\ statement.place.kind # "Identifier"
       /\ ~ /\ statement.place.kind = "Tuple"
            /\ \A i \in 1..Len(statement.place.elements) :
                    statement.place.elements[i].kind = "Identifier"

\* C25: when the sweep meets a statement that cannot occur at this phase,
\* the pass fails at once with an internal-invariant failure: it returns no
\* block, and no statement before the offending one is processed.
C25_CannotOccurFails ==
    \A i \in 1..Len(dce_block) :
        CannotOccur(dce_block[i]) =>
            /\ i = 1
            /\ dce_phase = "panicked"
            /\ dce_result = <<>>

\* C27: when a struct initializer is reconstructed inside a kept statement,
\* every member's initializer is reconstructed: the reconstruction returns,
\* every identifier a member uses (the identifier of a member in shorthand
\* included) is live after, and the members are kept as they are, in their
\* order.
C27_StructInitMembers ==
    [][(/\ dce_phase = "sweep"
        /\ Len(dce_block') = Len(dce_block) + 1
        /\ Head(dce_block').kind = "Assign"
        /\ Head(dce_block').value.kind = "Struct"
        /\ Targets(Head(dce_block')) \cap used_variables # {})
            => LET input == Head(dce_block').value
                   output == statements'[Len(statements')]
               IN  /\ dce_phase' = "sweep"
                   /\ Len(statements') = Len(statements) + 1
                   /\ Identifiers(input) \subseteq used_variables'
                   /\ output.kind = "Assign" /\ output.value.kind = "Struct"
                   /\ Len(output.value.members) = Len(input.members)
                   /\ \A i \in 1..Len(input.members) :
                        /\ output.value.members[i].identifier = input.members[i].identifier
                        /\ Identifiers(struct_member_expression(output.value.members[i]))
                                = Identifiers(struct_member_expression(input.members[i]))]_vars

\* Every name an identifier node of the expression carries, the callee of a
\* call included.
RECURSIVE Names(_)
Names(e) ==
    (IF e.kind = "Identifier" THEN {e.name} ELSE {})
    \cup (IF e.kind = "Call" THEN Names(e.function) ELSE {})
    \cup UNION {Names(Children(e)[i]) : i \in 1..Len(Children(e))}

\* The names of the identifier nodes of a statement's sub-expressions.
StatementNames(st) == UNION {Names(e) : e \in StatementExpressions(st)}

\* Is the statement kept, given the liveness set the sweep has reached?
IsKept(st, used) ==
    \/ st.kind \in NecessaryKinds
    \/ st.kind = "Assign" /\ lhs_is_used(st.place, used) = "used"

\* C28: the necessity flag is unset when the reconstruction of a statement
\* starts and when it is left, by a return or by a panic, being set only
\* while the sub-expressions of a statement that is kept are reconstructed;
\* so every name the liveness set gains comes from a statement that is
\* kept, and an eliminated assignment adds nothing.
C28_NecessityFlag ==
    [][(dce_phase = "sweep" /\ Len(dce_block') = Len(dce_block) + 1) =>
            LET input == Head(dce_block')
                returned == Len(statements') = Len(statements) + 1
                kept == {statements'[k] : k \in 1..Len(statements')} \ {Dummy}
                keeping == IF ~returned /\ IsKept(input, used_variables)
                           THEN {input} ELSE {}
            IN  /\ is_necessary = FALSE
                /\ is_necessary' = FALSE
                /\ used_variables' \ used_variables \subseteq StatementNames(input)
                /\ used_variables' # used_variables => IsKept(input, used_variables)
                /\ returned /\ ~IsKept(input, used_variables) =>
                        /\ statements'[Len(statements')] = Dummy
                        /\ used_variables' = used_variables
                /\ returned /\ used_variables' # used_variables =>
                        statements'[Len(statements')] # Dummy
                /\ used_variables' \subseteq
                        UNION {StatementNames(st) : st \in kept \cup keeping}]_vars

\* In the returned block, every assignment to a name before a kept use of
\* that name is retained.
RetainsAssignments(block, result) ==
    \A i, k \in 1..Len(block) :
        /\ i < k
        /\ result[k] # Dummy
        /\ Targets(block[i]) \cap Uses(result[k]) # {}
        => result[i] = block[i]

\* C29: during a backward sweep the liveness set only grows: no statement
\* reconstruction removes a name, not even the reconstruction of the
\* assignment that defines the name.  So when several assignments of a
\* block assign one name, each of them that precedes a kept use of the name
\* is retained.
C29_LivenessOnlyGrows ==
    [][dce_phase = "sweep" /\ dce_phase' \in {"sweep", "done"} =>
            /\ used_variables \subseteq used_variables'
            /\ Len(dce_block') = Len(dce_block) + 1 =>
                    Targets(Head(dce_block')) \cap used_variables \subseteq used_variables'
            /\ dce_phase' = "done" => RetainsAssignments(dce_block', dce_result')]_vars

\* A block that assigns `x` twice before a kept use of `x`: both assignments
\* are retained, and `x` is live after the sweep has passed both.
C29_Witness ==
    /\ Done /\ Len(dce_block) = 3 /\ ~IsSSA(dce_block)
    /\ dce_block[1].kind = "Assign" /\ dce_block[2].kind = "Assign"
    /\ Targets(dce_block[1]) = {"x"} /\ Targets(dce_block[2]) = {"x"}
    /\ "x" \in Uses(dce_block[3])
    /\ dce_result = dce_block
    /\ "x" \in used_variables

(***************************************************************************)
(* Properties of the diagnostic Handler.                                   *)
(***************************************************************************)
\* Handler::with has returned.
WithReturned == h_scope = "with" /\ h_phase = "returned"

\* What the closure returned to Handler::with.
ClosureResult == h_call.arg

\* C13: Handler::with returns Ok(v) if and only if the closure returned
\* Ok(v) and no error was emitted during the run; when the closure returns
\* Ok and errors were emitted, it returns the failure that carries exactly
\* the emitted errors, in the order they were emitted.
C13_WithOkIffClean ==
    WithReturned =>
        /\ with_result.ok <=> (ClosureResult.ok /\ emitted = <<>>)
        /\ with_result.ok => with_result = ClosureResult
        /\ ClosureResult.ok /\ emitted # <<>> => with_result = ResultErr(emitted)

\* Two different diagnostics were emitted and the closure returned Ok.
C13_Witness ==
    /\ WithReturned /\ ClosureResult.ok
    /\ Len(emitted) = 2 /\ emitted[1] # emitted[2]
    /\ with_result = ResultErr(emitted)

\* C14: when the closure returns Err(e), Handler::with returns the failure
\* that carries the errors emitted during the run, in the order they were
\* emitted, and then e; no failure of Handler::with carries an empty list.
C14_WithErrCarriesAll ==
    WithReturned =>
        /\ ~ClosureResult.ok => with_result = ResultErr(Append(emitted, ClosureResult.is))
        /\ ~with_result.ok => with_result.is # <<>>

C14_Witness ==
    /\ WithReturned /\ ~ClosureResult.ok
    /\ Len(emitted) = 2 /\ emitted[1] # emitted[2]
    /\ Len(with_result.is) = 3 /\ with_result.is[3] = ClosureResult.is

\* A step in which the client looks at the handler.
Observes == h_phase = "running" /\ h_seen'.seen /\ h_call' = h_call /\ emitted' = emitted

\* C15: for a handler made by Handler::new_with_buf, after any sequence of
\* emit_err calls on the handler (the client has handed nothing to the
\* BufferEmitter itself) extract returns the emitted errors in the order
\* they were emitted, err_count returns their number, and had_errors
\* returns true exactly when there is one; and looking at the handler
\* changes neither the buffer nor the counter.
C15_BufferedHandler ==
    /\ [](h_scope = "new_with_buf" /\ h_phase # "off" /\ HandedTo("BufferEmitter") = <<>> =>
            /\ into_inner(extract(buffer)) = emitted
            /\ err_count(TheHandler).value = usize(Len(emitted))
            /\ had_errors(TheHandler).value <=> emitted # <<>>
            /\ h_seen.seen =>
                    h_seen = Seen(err_count(TheHandler).value, had_errors(TheHandler).value,
                                  Some(emitted)))
    /\ [][Observes => UNCHANGED <<count, buffer, stderr, emitter>>]_vars

\* Two different errors were emitted, and the client has looked.
C15_Witness ==
    /\ h_scope = "new_with_buf" /\ h_phase = "running"
    /\ Len(emitted) = 2 /\ emitted[1] # emitted[2]
    /\ pushed = <<>>
    /\ h_seen = Seen(usize(2), TRUE, Some(emitted))

\* A step in which the client calls fatal_err.
CallsFatalErr == h_phase = "running" /\ h_call'.op = "fatal_err" /\ h_phase' # "running"

\* C16: fatal_err first does to the counter and to the emitter what
\* emit_err does with the same error, and then, that done, ends the process
\* with the exit code of the error as its status; it never returns, and
\* nothing happens to the handler after the process has exited.
C16_FatalErrRecordsThenExits ==
    /\ [][CallsFatalErr =>
            LET err == h_call'.arg
                emit == Handler_emit_err(TheHandler, err)
            IN  /\ count' = emit.h.count
                /\ buffer' = emit.h.buffer
                /\ stderr' = emit.h.stderr
                /\ emit.fail = "" =>
                        h_phase' = "exited" /\ exit_status' = Some(exit_code(err))]_vars
    /\ [](h_call.op = "fatal_err" => h_phase \in {"exited", "panicked"})
    /\ [](h_phase = "exited" =>
            /\ h_call.op = "fatal_err"
            /\ exit_status = Some(exit_code(h_call.arg))
            /\ usize_gt(count, usize(0))
            /\ emitter = "BufferEmitter" => buffer[Len(buffer)] = h_call.arg
            /\ emitter = "StderrEmitter" => stderr[Len(stderr)] = h_call.arg)
    /\ [][h_phase = "exited" => UNCHANGED handlerVars]_vars

\* The process exited on the second error, after the first was emitted.
C16_Witness ==
    /\ h_phase = "exited" /\ emitter = "BufferEmitter"
    /\ Len(buffer) = 2 /\ buffer[1] # buffer[2]
    /\ exit_status = Some(exit_code(buffer[2]))
    /\ pushed = <<>>
    /\ count = usize(2)

\* C17: emit_err never fails.  Every call of emit_err completes, whatever
\* the emitter of the handler, an emitter that calls emit_err or err_count
\* on the handler that owns it included: no call panics, the counter
\* counts every error handed to the handler, and the emitter receives it
\* (its output is those errors when the client has handed it none itself).
C17_EmitErrNeverFails ==
    h_phase \in {"running", "panicked"} =>
        /\ h_phase # "panicked"
        /\ count = usize(Len(emitted))
        /\ emitter = "StderrEmitter" /\ HandedTo("StderrEmitter") = <<>> => stderr = emitted
        /\ emitter = "BufferEmitter" /\ HandedTo("BufferEmitter") = <<>> => buffer = emitted

\* Is b the usize after a?  One limb of b is that of a plus one, the limbs
\* above it are those of a, and below it the limbs of a are at their
\* maximum and those of b are 0.
IsSuccessor(a, b) ==
    \E k \in 1..Limbs :
        /\ b[k] = a[k] + 1
        /\ \A j \in 1..(k - 1) : b[j] = a[j]
        /\ \A j \in (k + 1)..Limbs : a[j] = Limb - 1 /\ b[j] = 0

\* C18: the counter saturates.  An emit adds one to the counter unless it
\* is at its maximum, where it stays; the counter never decreases, and
\* had_errors, once true, stays true.
C18_CounterSaturates ==
    [][h_phase # "off" =>
        /\ emitted' # emitted =>
                IF count = usize_MAX THEN count' = usize_MAX ELSE IsSuccessor(count, count')
        /\ count' = count \/ usize_gt(count', count)
        /\ \A i \in 1..Limbs : count'[i] \in 0..(Limb - 1)
        /\ had_errors(TheHandler).value => had_errors(TheHandler).value']_vars

\* Two errors were emitted, the second with the counter at its maximum.
C18_Witness ==
    /\ h_phase = "running"
    /\ Len(emitted) = 2
    /\ h_call.op = "emit_err"
    /\ count = usize_MAX
    /\ stderr = emitted

(***************************************************************************)
(* Properties of the record commitment verifier.                           *)
(***************************************************************************)
\* The stored commitment is the commitment of the record's owner,
\* is_dummy, value, payload, birth and death program ids and serial number
\* nonce, in that order, under the stored randomness.
CommitmentMatches ==
    typed_record.commitment =
        commit(SystemParameters, CommittedFields(typed_record),
               typed_record.commitment_randomness)

\* C19: verify_record_commitment returns Ok(record) if and only if no
\* step of it fails and the recomputed commitment equals the stored one;
\* when the two differ it returns CommitmentsDoNotMatch, and when the
\* conversion, a read or the commitment fails it returns that failure,
\* and no record.
C19_VerifyRecordCommitment ==
    rc_phase = "returned" =>
        /\ rc_result.ok <=> (rc_failing = "none" /\ CommitmentMatches)
        /\ rc_result.ok => rc_result.is = DPCRecordValues_try_from(typed_record)
        /\ rc_failing = "none" /\ ~CommitmentMatches =>
                ~rc_result.ok /\ rc_result.is = "CommitmentsDoNotMatch"
        /\ rc_failing # "none" => ~rc_result.ok /\ rc_result.is = rc_failing

\* A record that is not a dummy is verified.
C19_Witness ==
    /\ rc_phase = "returned" /\ rc_result.ok
    /\ ~typed_record.is_dummy /\ typed_record.serial_number_nonce = "nonce1"
    /\ rc_result.is.commitment = typed_record.commitment

(***************************************************************************)
(* Properties of a compiler session.                                       *)
(***************************************************************************)
\* A pass has detected one of its internal invariant violations: the Dead
\* Code Eliminator met a statement of a kind that cannot occur, or the Code
\* Generator met an unknown composite or an unrecognized intrinsic type.
InvariantViolated ==
    \/ /\ dce_phase = "panicked"
       /\ Head(dce_block).kind \in {"Conditional", "Console", "Definition", "Iteration"}
    \/ /\ cg_phase = "panicked"
       /\ cg_input.kind = "Struct"
       /\ struct_init_name(cg_input) = None
    \/ /\ cg_phase = "panicked"
       /\ cg_input.kind = "Access"
       /\ cg_input.access = "AssociatedFunction"
       /\ associated_function_symbol(cg_input) = None

\* C24: an internal invariant violation detected by a pass is reported
\* through the handler's fatal emit: the error is recorded on the handler
\* (the counter is incremented and the emitter has received the error), and
\* the process has ended with the exit status of the error.
C24_InvariantViolationIsFatalErr ==
    InvariantViolated =>
        /\ count = usize(1)
        /\ Len(stderr) = 1
        /\ h_phase = "exited"
        /\ \E err \in LeoErrors : exit_status = Some(exit_code(err))

====
